---- MODULE Spec2Model ----
(***************************************************************************)
(* A model of the see-code static analysis engine (backend/app):           *)
(*   - utils/code_parser.py        CodeParser (structural extractor)       *)
(*   - analyzers/*.py              the detectors                           *)
(*   - agents/quality_agent.py     QualityIntelligenceAgent (aggregator)   *)
(* Each component is a state machine over its own variables; a component's *)
(* specification pins the variables of the other components.               *)
(***************************************************************************)
EXTENDS Integers, Sequences, FiniteSets, TLC

\* ------------------------------------------------------------------------
\* Bounds of the model
\* ------------------------------------------------------------------------
MaxFiles == 2
MaxCount == 1
MaxMeasure == 12
MaxCalls == 2
MaxUnits == 2
MaxLlmIssues == 2
MaxRuns == 2
MaxLines == 6
MaxIndent == 1
MaxComplexity == 17
MaxFunctions == 2
MaxFunctionNesting == 2
MaxOperands == 3
MaxNest == 7
MaxNodes == 8
MaxIssues == 3
MaxChars == 4
MaxTokens == 3
MaxSupported == 5
\* batch_size of parse_directory, 50 in the source, scaled to the bounds
batch_size == 2
MaxCogNodes == 5
MaxHandlers == 2
MaxWalk == 4
MaxScanLines == 3
MaxBlocks == 3
MaxClasses == 7
MaxSegments == 3
MaxModules == 1
MaxNames == 2

\* ------------------------------------------------------------------------
\* Helpers
\* ------------------------------------------------------------------------
Min(a, b) == IF a <= b THEN a ELSE b
Max(a, b) == IF a >= b THEN a ELSE b
Range(s) == {s[i] : i \in 1..Len(s)}

VARIABLES
    \* --- CodeParser.parse_directory ---
    p_pc,          \* position of parse_directory: start, walk, parse, done, raised
    p_target,      \* what directory_path names: missing, file, dir
    p_walked,      \* number of directory entries the walk has seen
    p_supported,   \* supported_files: descriptors collected by the walk
    p_idx,         \* index in supported_files of the next parse_file call
    p_files,       \* files: the FileInfo list being returned
    p_failed,      \* ids of the files whose parse_file raised (logged, omitted)
    p_excluded,    \* history: why _is_supported_file has refused files so far
    \* --- CodeIssue(...) calls of the detectors ---
    s_call,        \* the last CodeIssue(...) call: rule, impact_score, confidence
    s_built,       \* whether that call passed the field validation of CodeIssue
    s_n,           \* number of CodeIssue(...) calls made so far
    \* --- QualityIntelligenceAgent.analyze_codebase ---
    a_pc,          \* position of analyze_codebase
    a_run,         \* which call of analyze_codebase on this agent this is
    a_units,       \* parsed_files: what parse_directory returns for the path
    a_reply,       \* what the language model answers
    a_trad,        \* the issues of the analyzers run so far
    a_ast,         \* ast_analysis_result
    a_llm,         \* llm_analysis
    a_report,      \* the AnalysisResponse of this call
    a_prev,        \* the AnalysisResponse of the call before
    \* --- DuplicationAnalyzer.analyze ---
    d_pc,          \* start, done
    d_content,     \* the lines of the first file
    d_twin,        \* whether the second file is a byte-identical copy
    d_issues,      \* the issues analyze returns
    \* --- ComplexityVisitor of _analyze_python_cyclomatic ---
    c_pc,               \* visit, done
    c_current_function, \* current_function: the line of its def, 0 for None
    c_complexity,       \* complexity
    c_stack,            \* the function definitions the walk is inside of
    c_functions,        \* functions: what the visitor has recorded
    c_truth,            \* history: every function definition the walk has left
    c_lineno,           \* the line of the last function definition entered
    c_issues,           \* the issues _analyze_python_cyclomatic returns
    \* --- NestingVisitor of _analyze_python_nesting ---
    n_pc,               \* visit, done
    n_current_depth,    \* current_depth
    n_max_depth,        \* max_depth
    n_depth_locations,  \* depth_locations
    n_lineno,           \* the line of the last nesting construct entered
    n_deepest,          \* history: the deepest nesting the walk has been at
    n_only_if,          \* history: every construct entered so far is an if
    n_issues,           \* the issues _analyze_python_nesting returns
    \* --- analyze and _deduplicate_issues of SecurityAnalyzer, DuplicationAnalyzer ---
    q_pc,             \* gather, dedup, returned, done
    q_analyzer,       \* security or duplication
    q_all_issues,     \* all_issues: the results of the sub-passes, in task order
    q_issues,         \* issues: the argument of the _deduplicate_issues call
    q_i,              \* index in issues of the next issue of the loop
    q_seen,           \* seen
    q_unique_issues,  \* unique_issues
    q_round,          \* 1 for the call made by analyze, 2 for a call on its result
    q_returned,       \* what analyze returned
    \* --- SecurityAnalyzer._analyze_with_patterns on one file ---
    v_pc,       \* write, done
    v_content,  \* file_info.content: characters, some of them the start of a match
    v_line,     \* history: the line the next character is on
    v_matches,  \* history: the class and line of every match written
    v_issues,   \* the issues analyze returns
    \* --- DuplicationAnalyzer._normalize_code and _calculate_similarity on two blocks ---
    m_pc,          \* write, done
    m_code1,       \* the first block, a character at a time
    m_code2,       \* the second block: the first with other names and literal values
    m_last,        \* history: whether the last token written is a name or a number
    m_tokens,      \* history: the number of tokens written
    m_norm1,       \* _normalize_code of the first block
    m_norm2,       \* _normalize_code of the second block
    m_similarity,  \* _calculate_similarity of the two normalized blocks
    \* --- a raise inside a detector sub-pass ---
    g_pc,                  \* position: files, duplication, done
    g_files,               \* the parsed files, each with the findings the sub-passes have in it
    g_fault,               \* the sub-pass and file whose processing raises
    g_complexity_issues,   \* what ComplexityAnalyzer.analyze returned
    g_traditional_issues,  \* the detectors' findings, combined
    \* --- CodeParser.parse_directory, the batches ---
    b_pc,         \* position: walk, gather, done
    b_supported,  \* len(supported_files)
    b_i,          \* the offset i of the batch loop
    b_started,    \* positions whose parse_file task has started
    b_results,    \* the tasks that are over: unit or exception, by position
    b_files,      \* the list parse_directory returns
    b_parses,     \* how many times each position was parsed
    \* --- CognitiveComplexityVisitor on one function ---
    k_pc,               \* position: visit, done
    k_path,             \* the statements open around the node being visited
    k_cognitive_score,  \* self.cognitive_score
    k_nesting_level,    \* self.nesting_level
    k_nodes,            \* nodes visited so far
    k_seen,             \* what the function holds, counted as it is walked
    k_functions,        \* self.functions
    \* --- CodeParser._calculate_python_complexity ---
    w_pc,          \* position: walk, done
    w_complexity,  \* the local complexity
    w_walked,      \* nodes handed out by ast.walk so far
    w_tree,        \* what the tree holds, counted as it is walked
    w_result,      \* the returned score
    \* --- _analyze_js_cyclomatic and _analyze_java_cyclomatic ---
    j_pc,          \* position: scan, done
    j_language,    \* javascript or java
    j_lines,       \* the lines of the file read so far
    j_current,     \* current_function or current_method (0 is None)
    j_complexity,  \* function_complexity or method_complexity
    j_start_line,  \* function_start_line or method_start_line
    j_issues,      \* the issues list
    \* --- _analyze_similar_blocks on given candidate blocks ---
    x_pc,      \* position: start, done
    x_blocks,  \* the candidate blocks of the files, in order
    x_sim,     \* the similarity of each pair of blocks, in percent
    x_issues,  \* what analyze returns
    \* --- ASTAnalyzer._analyze_class_hierarchy ---
    h_pc,        \* position: classes, done
    h_bases,     \* the bases of each class met so far
    h_insights,  \* the insights returned
    \* --- DuplicationAnalyzer._extract_code_blocks ---
    e_pc,             \* position of _extract_code_blocks: loop, done
    e_lines,          \* file_info.content.splitlines()
    e_i,              \* 0-based index of the next line of the loop
    e_current_block,  \* current_block
    e_current_start,  \* current_start
    e_base_indent,    \* base_indent, -1 for None
    e_blocks,         \* blocks
    \* --- ASTAnalyzer.analyze, two runs on one analyzer ---
    y_pc,                \* position of each run of analyze: start, gathered, done
    y_files,             \* python_files of each run
    y_dependency_graph,  \* self.dependency_graph
    y_results,           \* analysis_results['dependency_graph'] of each run
    y_metrics,           \* analysis_results['metrics']['dependency_coupling'] of each run
    \* --- main.py: one analysis, request and background task ---
    z_pc,        \* position: request, rejected, queued, processing, cloned, finally, ended
    z_kind,      \* upload or github
    z_agent,     \* quality_agent is not None
    z_given,     \* files were uploaded / repo_url is not empty
    z_branch,    \* request.branch
    z_writes,    \* the statuses the record has taken
    z_temp_dir,  \* the temporary directory: none, exists, removed
    z_result,    \* analyze_codebase returned a result
    z_faults     \* what the store and the file system refused

parserVars == <<p_pc, p_target, p_walked, p_supported, p_idx, p_files, p_failed,
               p_excluded>>
scoreVars == <<s_call, s_built, s_n>>
agentVars == <<a_pc, a_run, a_units, a_reply, a_trad, a_ast, a_llm, a_report,
              a_prev>>

dupVars == <<d_pc, d_content, d_twin, d_issues>>

cycloVars == <<c_pc, c_current_function, c_complexity, c_stack, c_functions,
              c_truth, c_lineno, c_issues>>
nestVars == <<n_pc, n_current_depth, n_max_depth, n_depth_locations, n_lineno,
             n_deepest, n_only_if, n_issues>>

dedupVars == <<q_pc, q_analyzer, q_all_issues, q_issues, q_i, q_seen,
              q_unique_issues, q_round, q_returned>>

scanVars == <<v_pc, v_content, v_line, v_matches, v_issues>>

normVars == <<m_pc, m_code1, m_code2, m_last, m_tokens, m_norm1, m_norm2,
               m_similarity>>

guardVars == <<g_pc, g_files, g_fault, g_complexity_issues,
                g_traditional_issues>>

batchVars == <<b_pc, b_supported, b_i, b_started, b_results, b_files,
                b_parses>>

cogVars == <<k_pc, k_path, k_cognitive_score, k_nesting_level, k_nodes,
              k_seen, k_functions>>

astWalkVars == <<w_pc, w_complexity, w_walked, w_tree, w_result>>

regexVars == <<j_pc, j_language, j_lines, j_current, j_complexity,
                j_start_line, j_issues>>

pairsVars == <<x_pc, x_blocks, x_sim, x_issues>>

hierVars == <<h_pc, h_bases, h_insights>>

extractVars == <<e_pc, e_lines, e_i, e_current_block, e_current_start,
                  e_base_indent, e_blocks>>

couplingVars == <<y_pc, y_files, y_dependency_graph, y_results, y_metrics>>

jobVars == <<z_pc, z_kind, z_agent, z_given, z_branch, z_writes, z_temp_dir,
              z_result, z_faults>>

vars == <<parserVars, scoreVars, agentVars, dupVars, cycloVars, nestVars,
         dedupVars,
         scanVars,
         normVars,
         guardVars,
         batchVars,
         cogVars,
         astWalkVars,
         regexVars,
         pairsVars,
         hierVars,
         extractVars,
         couplingVars,
         jobVars>>

\* the variables of the other components, from each component's view
notParser == <<scoreVars, agentVars, dupVars, cycloVars, nestVars,
    dedupVars,
    scanVars,
    normVars,
    guardVars,
    batchVars,
    cogVars,
    astWalkVars,
    regexVars,
    pairsVars,
    hierVars,
    extractVars,
    couplingVars,
    jobVars>>
notScore == <<parserVars, agentVars, dupVars, cycloVars, nestVars,
    dedupVars,
    scanVars,
    normVars,
    guardVars,
    batchVars,
    cogVars,
    astWalkVars,
    regexVars,
    pairsVars,
    hierVars,
    extractVars,
    couplingVars,
    jobVars>>
notAgent == <<parserVars, scoreVars, dupVars, cycloVars, nestVars,
    dedupVars,
    scanVars,
    normVars,
    guardVars,
    batchVars,
    cogVars,
    astWalkVars,
    regexVars,
    pairsVars,
    hierVars,
    extractVars,
    couplingVars,
    jobVars>>
notDup == <<parserVars, scoreVars, agentVars, cycloVars, nestVars,
    dedupVars,
    scanVars,
    normVars,
    guardVars,
    batchVars,
    cogVars,
    astWalkVars,
    regexVars,
    pairsVars,
    hierVars,
    extractVars,
    couplingVars,
    jobVars>>
notCyclo == <<parserVars, scoreVars, agentVars, dupVars, nestVars,
    dedupVars,
    scanVars,
    normVars,
    guardVars,
    batchVars,
    cogVars,
    astWalkVars,
    regexVars,
    pairsVars,
    hierVars,
    extractVars,
    couplingVars,
    jobVars>>
notNest == <<parserVars, scoreVars, agentVars, dupVars, cycloVars,
    dedupVars,
    scanVars,
    normVars,
    guardVars,
    batchVars,
    cogVars,
    astWalkVars,
    regexVars,
    pairsVars,
    hierVars,
    extractVars,
    couplingVars,
    jobVars>>
notDedup == <<parserVars, scoreVars, agentVars, dupVars, cycloVars, nestVars,
    scanVars,
    normVars,
    guardVars,
    batchVars,
    cogVars,
    astWalkVars,
    regexVars,
    pairsVars,
    hierVars,
    extractVars,
    couplingVars,
    jobVars>>
notScan == <<parserVars, scoreVars, agentVars, dupVars, cycloVars, nestVars, dedupVars,
    normVars,
    guardVars,
    batchVars,
    cogVars,
    astWalkVars,
    regexVars,
    pairsVars,
    hierVars,
    extractVars,
    couplingVars,
    jobVars>>
notNorm == <<parserVars, scoreVars, agentVars, dupVars, cycloVars, nestVars, dedupVars, scanVars,
    guardVars,
    batchVars,
    cogVars,
    astWalkVars,
    regexVars,
    pairsVars,
    hierVars,
    extractVars,
    couplingVars,
    jobVars>>
notGuard == <<parserVars, scoreVars, agentVars, dupVars, cycloVars, nestVars, dedupVars, scanVars, normVars,
    batchVars,
    cogVars,
    astWalkVars,
    regexVars,
    pairsVars,
    hierVars,
    extractVars,
    couplingVars,
    jobVars>>
notBatch == <<parserVars, scoreVars, agentVars, dupVars, cycloVars, nestVars, dedupVars, scanVars, normVars, guardVars,
    cogVars,
    astWalkVars,
    regexVars,
    pairsVars,
    hierVars,
    extractVars,
    couplingVars,
    jobVars>>
notCog == <<parserVars, scoreVars, agentVars, dupVars, cycloVars, nestVars, dedupVars, scanVars, normVars, guardVars, batchVars,
    astWalkVars,
    regexVars,
    pairsVars,
    hierVars,
    extractVars,
    couplingVars,
    jobVars>>
notAstWalk == <<parserVars, scoreVars, agentVars, dupVars, cycloVars, nestVars, dedupVars, scanVars, normVars, guardVars, batchVars, cogVars,
    regexVars,
    pairsVars,
    hierVars,
    extractVars,
    couplingVars,
    jobVars>>
notRegex == <<parserVars, scoreVars, agentVars, dupVars, cycloVars, nestVars, dedupVars, scanVars, normVars, guardVars, batchVars, cogVars, astWalkVars,
    pairsVars,
    hierVars,
    extractVars,
    couplingVars,
    jobVars>>
notPairs == <<parserVars, scoreVars, agentVars, dupVars, cycloVars, nestVars, dedupVars, scanVars, normVars, guardVars, batchVars, cogVars, astWalkVars, regexVars,
    hierVars,
    extractVars,
    couplingVars,
    jobVars>>
notHier == <<parserVars, scoreVars, agentVars, dupVars, cycloVars, nestVars, dedupVars, scanVars, normVars, guardVars, batchVars, cogVars, astWalkVars, regexVars, pairsVars,
    extractVars,
    couplingVars,
    jobVars>>
notExtract == <<parserVars, scoreVars, agentVars, dupVars, cycloVars, nestVars, dedupVars, scanVars, normVars, guardVars, batchVars, cogVars, astWalkVars, regexVars, pairsVars, hierVars,
    couplingVars,
    jobVars>>
notCoupling == <<parserVars, scoreVars, agentVars, dupVars, cycloVars, nestVars, dedupVars, scanVars, normVars, guardVars, batchVars, cogVars, astWalkVars, regexVars, pairsVars, hierVars, extractVars,
    jobVars>>
notJob == <<parserVars, scoreVars, agentVars, dupVars, cycloVars, nestVars, dedupVars, scanVars, normVars, guardVars, batchVars, cogVars, astWalkVars, regexVars, pairsVars, hierVars, extractVars, couplingVars>>

\* ========================================================================
\* utils/code_parser.py
\* ========================================================================
SizeLimit == 1048576       \* 1024 * 1024, "1MB limit"
BinaryChunk == 1024        \* f.read(1024)
\* supported_extensions, reduced to one tree language, one line-scanned
\* language and one extension that is not in the table
Extensions == {"py", "js", "txt"}
supported_extensions(ext) ==
    CASE ext = "py" -> "python"
      [] ext = "js" -> "javascript"
      [] OTHER -> "unknown"

\* A directory entry as the scan sees it: extension, whether stat() and
\* open() work, st_size, whether the content holds a null byte and the
\* offset of the first one, and whether os.walk reaches the entry (it is not
\* under a skipped directory nor below max_depth). Fields that cannot be
\* observed are pinned to one value.
DiskFiles ==
    {f \in [ext : Extensions,
            stat : {"ok", "error"},
            size : {SizeLimit, SizeLimit + 1},
            open : {"ok", "error"},
            hasNull : BOOLEAN,
            nullAt : {BinaryChunk - 1, BinaryChunk},
            reached : BOOLEAN] :
        /\ (f.stat = "error" => f.size = SizeLimit)
        /\ (f.open = "error" => ~f.hasNull)
        /\ (~f.hasNull => f.nullAt = BinaryChunk)}

\* _is_binary_file: a null byte in the first 1024 bytes; True when open fails
is_binary_file(f) ==
    IF f.open = "error" THEN TRUE
    ELSE f.hasNull /\ f.nullAt < BinaryChunk

\* _is_supported_file without its size ceiling
is_supported_file_nosize(f) ==
    /\ supported_extensions(f.ext) # "unknown"
    /\ f.stat = "ok"
    /\ ~is_binary_file(f)

\* _is_supported_file
is_supported_file(f) ==
    /\ supported_extensions(f.ext) # "unknown"
    /\ f.stat = "ok"
    /\ ~(f.size > SizeLimit)
    /\ ~is_binary_file(f)

\* history of the refusals the claims speak of
Refusals(f) ==
    IF supported_extensions(f.ext) # "unknown" /\ f.stat = "ok" /\ f.open = "ok"
    THEN (IF f.size > SizeLimit THEN {"oversize"} ELSE {})
         \cup (IF is_binary_file(f) THEN {"binary"} ELSE {})
    ELSE {}

\* the part of a directory entry that supported_files keeps
Entry(id, f) ==
    [id |-> id, ext |-> f.ext, size |-> f.size, hasNull |-> f.hasNull,
     nullAt |-> f.nullAt]

\* What a parse of one file meets: the outcome of _read_file_safely, of
\* ast.parse, of the line scan, and the number of control-flow and boolean
\* constructs of the content.
ReadOutcomes == {"ok", "none"}
AstOutcomes == {"ok", "syntax_error", "error"}
GenericOutcomes == {"ok", "raises"}

\* _calculate_python_complexity, in halves (2 = 1.0): base 1, +1 per
\* branching node
calculate_python_complexity(nBranch) == 2 * (1 + nBranch)

\* _calculate_generic_complexity, in halves: base 1.0, +1 per control-flow
\* line, +0.5 per boolean-operator line
calculate_generic_complexity(nCtrl, nBool) == 2 + 2 * nCtrl + nBool

DefaultComplexity == 0     \* FileInfo.complexity_score: float = 0.0

\* _analyze_generic: sets complexity_score last; when it raises before that
\* the score keeps the value it had
analyze_generic(score, gen, nCtrl, nBool) ==
    IF gen = "ok"
    THEN [raised |-> FALSE, score |-> calculate_generic_complexity(nCtrl, nBool)]
    ELSE [raised |-> TRUE, score |-> score]

\* _analyze_python_ast: SyntaxError gives 1.0, any other exception falls back
\* to the line scan
analyze_python_ast(score, ast, gen, nCtrl, nBool) ==
    CASE ast = "ok" ->
           [raised |-> FALSE, score |-> calculate_python_complexity(nCtrl + nBool),
            tree |-> TRUE]
      [] ast = "syntax_error" ->
           [raised |-> FALSE, score |-> 2, tree |-> FALSE]
      [] OTHER ->
           [raised |-> analyze_generic(score, gen, nCtrl, nBool).raised,
            score |-> analyze_generic(score, gen, nCtrl, nBool).score,
            tree |-> FALSE]

\* _analyze_ast: dispatch on the language; every exception is logged and
\* swallowed, the FileInfo is returned as it stands
analyze_ast(lang, ast, gen, nCtrl, nBool) ==
    IF lang = "python"
    THEN LET r == analyze_python_ast(DefaultComplexity, ast, gen, nCtrl, nBool)
         IN [score |-> r.score, tree |-> r.tree, swallowed |-> r.raised]
    ELSE LET r == analyze_generic(DefaultComplexity, gen, nCtrl, nBool)
         IN [score |-> r.score, tree |-> FALSE, swallowed |-> r.raised]

\* parse_file: raises when the content cannot be read, else returns the
\* FileInfo after _analyze_ast
parse_file(id, f, read, ast, gen, nCtrl, nBool) ==
    IF read = "none"
    THEN [raised |-> TRUE]
    ELSE LET a == analyze_ast(supported_extensions(f.ext), ast, gen, nCtrl, nBool)
         IN [raised |-> FALSE,
             info |-> [id |-> id,
                       language |-> supported_extensions(f.ext),
                       size |-> f.size,
                       hasNull |-> f.hasNull,
                       nullAt |-> f.nullAt,
                       ast_tree |-> a.tree,
                       swallowed |-> a.swallowed,
                       complexity_score |-> a.score]]

\* the parser at rest, for the specifications of the other components
ParserIdle ==
    /\ p_pc = "idle" /\ p_target = "missing" /\ p_walked = 0
    /\ p_supported = <<>> /\ p_idx = 1 /\ p_files = <<>>
    /\ p_failed = {} /\ p_excluded = {}

ParserInit ==
    /\ p_pc = "start"
    /\ p_target \in {"missing", "file", "dir"}
    /\ p_walked = 0
    /\ p_supported = <<>>
    /\ p_idx = 1
    /\ p_files = <<>>
    /\ p_failed = {}
    /\ p_excluded = {}

\* parse_directory on a path that does not exist: ValueError
ParseMissing ==
    /\ p_pc = "start" /\ p_target = "missing"
    /\ p_pc' = "raised"
    /\ UNCHANGED <<p_target, p_walked, p_supported, p_idx, p_files, p_failed, p_excluded, notParser>>

\* parse_directory on a single file
ParseSingleFile ==
    /\ p_pc = "start" /\ p_target = "file"
    /\ \E f \in DiskFiles, read \in ReadOutcomes, ast \in AstOutcomes,
          gen \in GenericOutcomes, nCtrl \in 0..MaxCount, nBool \in 0..MaxCount :
         LET r == parse_file(1, f, read, ast, gen, nCtrl, nBool) IN
         /\ p_walked' = 1
         /\ p_excluded' = Refusals(f)
         /\ IF is_supported_file(f)
            THEN /\ p_supported' = <<Entry(1, f)>>
                 /\ IF r.raised
                    THEN p_files' = p_files /\ p_failed' = {1}
                    ELSE p_files' = Append(p_files, r.info) /\ p_failed' = p_failed
            ELSE UNCHANGED <<p_supported, p_files, p_failed>>
    /\ p_pc' = "done"
    /\ UNCHANGED <<p_target, p_idx, notParser>>

\* parse_directory on a directory: the walk starts
WalkStart ==
    /\ p_pc = "start" /\ p_target = "dir"
    /\ p_pc' = "walk"
    /\ UNCHANGED <<p_target, p_walked, p_supported, p_idx, p_files, p_failed, p_excluded, notParser>>

\* one file name of the os.walk loop
WalkFile ==
    /\ p_pc = "walk" /\ p_walked < MaxFiles
    /\ \E f \in DiskFiles :
         /\ p_walked' = p_walked + 1
         /\ IF f.reached /\ is_supported_file(f)
            THEN p_supported' = Append(p_supported, Entry(p_walked + 1, f))
            ELSE p_supported' = p_supported
         /\ p_excluded' = IF f.reached THEN p_excluded \cup Refusals(f)
                                       ELSE p_excluded
    /\ UNCHANGED <<p_pc, p_target, p_idx, p_files, p_failed, notParser>>

\* the walk is over
WalkDone ==
    /\ p_pc = "walk"
    /\ p_pc' = "parse"
    /\ UNCHANGED <<p_target, p_walked, p_supported, p_idx, p_files, p_failed, p_excluded, notParser>>

\* ParseNext with a gather that lets the first exception through
ParseNextPropagates ==
    /\ p_pc = "parse" /\ p_idx <= Len(p_supported)
    /\ \E read \in ReadOutcomes, ast \in AstOutcomes, gen \in GenericOutcomes,
          nCtrl \in 0..MaxCount, nBool \in 0..MaxCount :
         LET f == p_supported[p_idx]
             r == parse_file(f.id, f, read, ast, gen, nCtrl, nBool) IN
         IF r.raised
         THEN p_files' = p_files /\ p_failed' = p_failed \cup {f.id}
              /\ p_pc' = "raised"
         ELSE p_files' = Append(p_files, r.info) /\ p_failed' = p_failed
              /\ p_pc' = p_pc
    /\ p_idx' = p_idx + 1
    /\ UNCHANGED <<p_target, p_walked, p_supported, p_excluded, notParser>>

\* one parse_file of the gather, its result handled in order: a FileInfo is
\* appended, an exception is logged
ParseNext ==
    /\ p_pc = "parse" /\ p_idx <= Len(p_supported)
    /\ \E read \in ReadOutcomes, ast \in AstOutcomes, gen \in GenericOutcomes,
          nCtrl \in 0..MaxCount, nBool \in 0..MaxCount :
         LET f == p_supported[p_idx]
             r == parse_file(f.id, f, read, ast, gen, nCtrl, nBool) IN
         IF r.raised
         THEN p_files' = p_files /\ p_failed' = p_failed \cup {f.id}
         ELSE p_files' = Append(p_files, r.info) /\ p_failed' = p_failed
    /\ p_idx' = p_idx + 1
    /\ UNCHANGED <<p_pc, p_target, p_walked, p_supported, p_excluded, notParser>>

\* return files
ParseDone ==
    /\ p_pc = "parse" /\ p_idx > Len(p_supported)
    /\ p_pc' = "done"
    /\ UNCHANGED <<p_target, p_walked, p_supported, p_idx, p_files, p_failed, p_excluded, notParser>>

ParserNext ==
    \/ ParseMissing
    \/ ParseSingleFile
    \/ WalkStart
    \/ WalkFile
    \/ WalkDone
    \/ ParseNext
    \/ ParseDone

\* ------------------------------------------------------------------------
\* Properties of parse_directory
\* ------------------------------------------------------------------------
Ids(seq) == {seq[i].id : i \in 1..Len(seq)}

\* C1: every FileInfo that parse_file / parse_directory returns has
\* complexity_score >= 1.0 (2 halves), whatever happened in _analyze_ast.
C1_ComplexityAtLeastOne ==
    \A i \in 1..Len(p_files) : p_files[i].complexity_score >= 2

\* C8: parse_directory raises exactly when the path does not exist; on an
\* existing file or directory it returns, the files whose parse raised are
\* left out and every other collected file is in the result, in order.
C8_RaisesOnlyForMissingPath ==
    /\ (p_pc = "raised" => p_target = "missing")
    /\ (p_target = "missing" => p_pc \in {"start", "raised"})
    /\ (p_pc = "done" =>
          /\ Ids(p_files) = Ids(p_supported) \ p_failed
          /\ Len(p_files) = Cardinality(Ids(p_files))
          /\ \A i, j \in 1..Len(p_files) : i < j => p_files[i].id < p_files[j].id)

\* C8 witness: a scan that lost one file to a read error and kept another
C8_Witness ==
    /\ p_pc = "done" /\ p_target = "dir"
    /\ p_failed # {} /\ Len(p_files) >= 1

\* C9: no returned FileInfo belongs to a file above the 1 MB ceiling or with
\* a null byte in its first 1024 bytes.
C9_NoOversizedOrBinaryUnit ==
    \A i \in 1..Len(p_files) :
        /\ p_files[i].size <= SizeLimit
        /\ ~(p_files[i].hasNull /\ p_files[i].nullAt < BinaryChunk)

\* C9 witness: the scan met an oversized file and a binary file, and
\* returned a unit whose only null byte lies just past the first 1024 bytes
C9_Witness ==
    /\ p_pc = "done"
    /\ p_excluded = {"oversize", "binary"}
    /\ \E i \in 1..Len(p_files) :
          /\ p_files[i].size = SizeLimit
          /\ p_files[i].hasNull /\ p_files[i].nullAt = BinaryChunk

\* ========================================================================
\* models/analysis.py and the CodeIssue(...) calls of the analyzers
\* ========================================================================
\* a score as the fraction num/den, den > 0
R(n, d) == [num |-> n, den |-> d]
\* min(n/d, cap) and max(0, n/d) for integer cap
MinR(n, d, cap) == IF n <= cap * d THEN R(n, d) ELSE R(cap, 1)
MaxR0(n, d) == IF n >= 0 THEN R(n, d) ELSE R(0, 1)

\* CodeIssue.impact_score: Field(ge=0.0, le=10.0); confidence: Field(ge=0.0, le=1.0)
ImpactLo == 0
ImpactHi == 10
ConfidenceLo == 0
ConfidenceHi == 1
InField(r, lo, hi) == lo * r.den <= r.num /\ r.num <= hi * r.den

\* the field validation of one CodeIssue(...) call
CodeIssueValid(call) ==
    /\ InField(call.impact_score, ImpactLo, ImpactHi)
    /\ InField(call.confidence, ConfidenceLo, ConfidenceHi)

\* one CodeIssue(...) call: the rule that makes it, the kind (a table key)
\* or the measured quantity q it is made from, and the two scores it passes
Call(rule, kind, q, impact, conf) ==
    [rule |-> rule, kind |-> kind, q |-> q, impact_score |-> impact,
     confidence |-> conf]
NoCall == Call("none", "", 0, R(0, 1), R(0, 1))

\* the measured quantities: counts, lengths in lines, depths
Measures ==
    (0..MaxMeasure) \cup {10 * k : k \in 0..MaxMeasure}
                    \cup {100 * k : k \in 0..MaxMeasure}
\* similarities in percent, maintainability indices
Similarities == {70, 79, 80, 90, 100}
MaintainabilityIndices == {0, 24, 25, 49, 50}

\* ComplexityAnalyzer.complexity_thresholds
complexity_thresholds ==
    [cyclomatic      |-> [medium |-> 10,  high |-> 15],
     cognitive       |-> [medium |-> 20,  high |-> 30],
     nesting_depth   |-> [medium |-> 5,   high |-> 7],
     parameter_count |-> [medium |-> 7,   high |-> 10],
     function_length |-> [medium |-> 50,  high |-> 100],
     class_length    |-> [medium |-> 500, high |-> 1000]]

\* SecurityAnalyzer._calculate_impact_score (7.5 is 75/10)
VulnTypes == {"sql_injection", "xss", "hardcoded_secrets", "path_traversal",
              "command_injection", "insecure_random", "weak_crypto"}
calculate_impact_score(vuln_type) ==
    CASE vuln_type = "sql_injection" -> R(90, 10)
      [] vuln_type = "xss" -> R(70, 10)
      [] vuln_type = "hardcoded_secrets" -> R(80, 10)
      [] vuln_type = "path_traversal" -> R(75, 10)
      [] vuln_type = "command_injection" -> R(90, 10)
      [] vuln_type = "insecure_random" -> R(50, 10)
      [] vuln_type = "weak_crypto" -> R(60, 10)
      [] OTHER -> R(50, 10)

\* SecurityAnalyzer._severity_to_impact; "none" is a severity the map of the
\* external tool's levels did not know
Severities == {"critical", "high", "medium", "low", "info", "none"}
severity_to_impact(severity) ==
    CASE severity = "critical" -> R(9, 1)
      [] severity = "high" -> R(7, 1)
      [] severity = "medium" -> R(5, 1)
      [] severity = "low" -> R(3, 1)
      [] severity = "info" -> R(1, 1)
      [] OTHER -> R(5, 1)

\* the confidence of a bandit result: issue_confidence with HIGH, MEDIUM, LOW
\* replaced by 0.9, 0.7, 0.5
BanditConfidences == {"HIGH", "MEDIUM", "LOW"}
bandit_confidence(c) ==
    CASE c = "HIGH" -> R(9, 10)
      [] c = "MEDIUM" -> R(7, 10)
      [] OTHER -> R(5, 10)

\* the CodeIssue(...) calls of SecurityAnalyzer
SecurityCalls ==
    {Call("sec", v, 0, calculate_impact_score(v), R(7, 10)) : v \in VulnTypes}
    \cup {Call("bandit", sv, 0, severity_to_impact(sv), bandit_confidence(c)) :
             sv \in Severities, c \in BanditConfidences}
    \cup {Call("semgrep", sv, 0, severity_to_impact(sv), R(8, 10)) :
             sv \in Severities}
    \cup {Call("dep_vuln", "", 0, R(8, 1), R(95, 100)),
          Call("npm_vuln", "", 0, R(6, 1), R(6, 10)),
          Call("config_secret", "", 0, R(7, 1), R(8, 10))}

\* PerformanceAnalyzer._calculate_performance_impact
PatternTypes == {"n_plus_one_query", "inefficient_loops",
                 "expensive_operations_in_loops", "synchronous_io"}
calculate_performance_impact(pattern_type) ==
    CASE pattern_type = "n_plus_one_query" -> R(8, 1)
      [] pattern_type = "inefficient_loops" -> R(6, 1)
      [] pattern_type = "expensive_operations_in_loops" -> R(7, 1)
      [] pattern_type = "synchronous_io" -> R(5, 1)
      [] OTHER -> R(5, 1)

\* the CodeIssue(...) calls of PerformanceAnalyzer
PerformanceCalls ==
    {Call("perf", pt, 0, calculate_performance_impact(pt), R(7, 10)) :
        pt \in PatternTypes}
    \cup {Call("complexity", "", q, MinR(q, 2, 10), R(9, 10)) :
             q \in {m \in Measures : m > 10}}
    \cup {Call("db", "", 0, R(6, 1), R(7, 10)),
          Call("memory", "", 0, R(4, 1), R(6, 10)),
          Call("async", "", 0, R(5, 1), R(7, 10))}

\* the CodeIssue(...) calls of ComplexityAnalyzer: each fires above the
\* medium threshold of its quantity
Above(kind) == {m \in Measures : m > complexity_thresholds[kind].medium}
MethodCountLimit == 20
MaintainabilityLimit == 50
ComplexityCalls ==
    {Call("cyclomatic", "", q, MinR(q, 2, 10), R(9, 10)) : q \in Above("cyclomatic")}
    \cup {Call("js_cyclomatic", "", q, MinR(q, 2, 10), R(7, 10)) :
             q \in Above("cyclomatic")}
    \cup {Call("java_cyclomatic", "", q, MinR(q, 2, 10), R(7, 10)) :
             q \in Above("cyclomatic")}
    \cup {Call("cognitive", "", q, MinR(q, 3, 10), R(8, 10)) : q \in Above("cognitive")}
    \cup {Call("func_length", "", q, MinR(q, 20, 10), R(9, 10)) :
             q \in Above("function_length")}
    \cup {Call("param_count", "", q, MinR(q, 1, 10), R(8, 10)) :
             q \in Above("parameter_count")}
    \cup {Call("class_length", "", q, MinR(q, 100, 10), R(8, 10)) :
             q \in Above("class_length")}
    \cup {Call("method_count", "", q, MinR(q, 5, 10), R(7, 10)) :
             q \in {m \in Measures : m > MethodCountLimit}}
    \cup {Call("nesting", "", q, MinR(q, 1, 10), R(9, 10)) : q \in Above("nesting_depth")}
    \cup {Call("indent_nesting", "", q, MinR(q, 1, 10), R(6, 10)) :
             q \in Above("nesting_depth")}
    \cup {Call("maintainability", "", mi, MaxR0(100 - mi, 10), R(7, 10)) :
             mi \in {m \in MaintainabilityIndices : m < MaintainabilityLimit}}

\* the CodeIssue(...) calls of DuplicationAnalyzer; a block has at least
\* min_duplicate_lines lines, q is its line_count (the number of occurrences
\* for copy_paste), kind the similarity in percent where one is measured
min_duplicate_lines == 5
similarity_threshold == 80
function_similarity_threshold == 70
CopyPasteLimit == 3
SimKind(sim) ==
    CASE sim = 70 -> "70" [] sim = 79 -> "79" [] sim = 80 -> "80"
      [] sim = 90 -> "90" [] OTHER -> "100"
DuplicationCalls ==
    {Call("exact_dup", "", q, MinR(q, 5, 10), R(1, 1)) :
        q \in {m \in Measures : m >= min_duplicate_lines}}
    \cup {Call("similar_dup", SimKind(sim), q, MinR(sim * q, 500, 10), R(sim, 100)) :
             sim \in {x \in Similarities : x >= similarity_threshold},
             q \in {m \in Measures : m >= min_duplicate_lines}}
    \cup {Call("func_similar", SimKind(sim), 0, R(sim * 5, 100), R(sim, 100)) :
             sim \in {x \in Similarities : x >= function_similarity_threshold}}
    \cup {Call("copy_paste", "", q, MinR(q, 1, 8), R(6, 10)) :
             q \in {m \in Measures : m > CopyPasteLimit}}
    \cup {Call("func_dup", "", 0, R(6, 1), R(8, 10)),
          Call("class_dup", "", 0, R(5, 1), R(7, 10))}

\* the CodeIssue(...) calls of CodePatternVisitor
LongParamListLimit == 7
PatternCalls ==
    {Call("long_param_list", "", q, MinR(q, 1, 10), R(9, 10)) :
        q \in {m \in Measures : m > LongParamListLimit}}
    \cup {Call("missing_docstring", "", 0, R(2, 1), R(8, 10)),
          Call("class_missing_docstring", "", 0, R(3, 1), R(8, 10)),
          Call("bare_except", "", 0, R(5, 1), R(9, 10))}

\* the CodeIssue(...) calls of CodeSmellVisitor: visit_FunctionDef on more
\* than 50 statements, visit_If on more than 5 elif branches; visit_If passes
\* elif_count as it is
GodFunctionLimit == 50
ElifLimit == 5
SmellCalls ==
    {Call("god_function", "", q, MinR(q, 10, 10), R(8, 10)) :
        q \in {m \in Measures : m > GodFunctionLimit}}
    \cup {Call("long_elif_chain", "", q, R(q, 1), R(8, 10)) :
             q \in {m \in Measures : m > ElifLimit}}

ScoreIdle ==
    /\ s_call = NoCall /\ s_built = FALSE /\ s_n = 0

ScoreInit == ScoreIdle

\* one CodeIssue(...) call: pydantic validates the fields, the finding is
\* built when they are in range and ValidationError is raised otherwise
Construct(call) ==
    /\ s_call' = call
    /\ s_built' = CodeIssueValid(call)
    /\ s_n' = s_n + 1
    /\ UNCHANGED notScore

SecurityFinding ==
    /\ s_n < MaxCalls
    /\ \E call \in SecurityCalls : Construct(call)
PerformanceFinding ==
    /\ s_n < MaxCalls
    /\ \E call \in PerformanceCalls : Construct(call)
ComplexityFinding ==
    /\ s_n < MaxCalls
    /\ \E call \in ComplexityCalls : Construct(call)
DuplicationFinding ==
    /\ s_n < MaxCalls
    /\ \E call \in DuplicationCalls : Construct(call)
PatternFinding ==
    /\ s_n < MaxCalls
    /\ \E call \in PatternCalls : Construct(call)
SmellFinding ==
    /\ s_n < MaxCalls
    /\ \E call \in SmellCalls : Construct(call)

ScoreNext ==
    \/ SecurityFinding
    \/ PerformanceFinding
    \/ ComplexityFinding
    \/ DuplicationFinding
    \/ PatternFinding
    \/ SmellFinding

\* ------------------------------------------------------------------------
\* Properties of the scores
\* ------------------------------------------------------------------------
\* C2: every CodeIssue(...) call of a detector passes an impact_score in
\* [0, 10] and a confidence in [0, 1]: the measured quantity is clamped
\* before the finding is built.
C2_ScoresClamped ==
    s_n > 0 =>
        /\ InField(s_call.impact_score, ImpactLo, ImpactHi)
        /\ InField(s_call.confidence, ConfidenceLo, ConfidenceHi)

\* ========================================================================
\* Findings, and the detectors as the aggregator sees them
\* ========================================================================
\* sequence helpers: the subsequence at the indices in keep, the
\* concatenation of a sequence of sequences
KeepSeq(s, keep) ==
    LET F[i \in 0..Len(s)] ==
            IF i = 0 THEN <<>>
            ELSE IF i \in keep THEN Append(F[i - 1], s[i]) ELSE F[i - 1]
    IN F[Len(s)]
Flatten(ss) ==
    LET F[i \in 0..Len(ss)] == IF i = 0 THEN <<>> ELSE F[i - 1] \o ss[i]
    IN F[Len(ss)]
Count(s, Test(_)) == Cardinality({i \in 1..Len(s) : Test(s[i])})

\* an issue id: the detectors format "<rule>_<file hash>_<line>" (and a
\* trailing block index for similar blocks); _ensure_issue_ids takes the
\* first 12 hex digits of md5("<category>_<file_path>_<line>_<i>"), held
\* here as the hashed tuple
Id(src, cat, hash, path, line, idx) ==
    [src |-> src, cat |-> cat, hash |-> hash, path |-> path, line |-> line,
     idx |-> idx]
NoId == Id("", "", <<>>, 0, 0, 0)

\* a title: its text and the number formatted into it (0 when none)
Title(text, n) == [text |-> text, n |-> n]

\* a CodeIssue as far as the aggregator and the report use it; refs holds the
\* locations an exact-duplication description lists
Issue(id, category, severity, file_path, line_number, title, refs) ==
    [id |-> id, category |-> category, severity |-> severity,
     file_path |-> file_path, line_number |-> line_number, title |-> title,
     refs |-> refs]

\* the key of SecurityAnalyzer._deduplicate_issues and
\* DuplicationAnalyzer._deduplicate_issues
DedupKey(issue) == <<issue.file_path, issue.line_number, issue.title>>

\* _deduplicate_issues: the first issue of each key is kept, in order
deduplicate_issues(issues) ==
    KeepSeq(issues, {i \in 1..Len(issues) :
                        \A j \in 1..(i - 1) : DedupKey(issues[j]) # DedupKey(issues[i])})

\* what a pattern pass or a visitor found in one file: rule, category,
\* severity, line and title
Fact(rule, category, severity, line, title) ==
    [rule |-> rule, category |-> category, severity |-> severity,
     line |-> line, title |-> title]

\* FileInfo.hash is the md5 of the content: held as the content itself
FileHash(u) == u.lines

\* the issue a detector builds from a fact of file u: its id is made of the
\* rule, the content hash of the file and the line
FactIssue(u, f) ==
    Issue(Id(f.rule, "", FileHash(u), 0, f.line, 0), f.category, f.severity,
          u.path, f.line, f.title, {})
FactIssues(u, facts) == [k \in 1..Len(facts) |-> FactIssue(u, facts[k])]

\* ------------------------------------------------------------------------
\* analyzers/duplication_analyzer.py
\* ------------------------------------------------------------------------
\* a line of content: blank, comment ('#' or '//' after stripping) or code,
\* its indentation, and its text after the indentation (a token)
Line(kind, indent, text) == [kind |-> kind, indent |-> indent, text |-> text]

\* _extract_code_blocks: one step of the loop over the lines. st holds
\* blocks, current_start, the length of current_block and base_indent
\* (-1 for None); i is the 0-based index of line l of file u.
BlockOf(u, st, end_line) ==
    [content |-> SubSeq(u.lines, st.start + 1, st.start + st.len),
     hash |-> SubSeq(u.lines, st.start + 1, st.start + st.len),
     start_line |-> st.start + 1,
     end_line |-> end_line,
     line_count |-> st.len,
     file_path |-> u.path,
     file_hash |-> FileHash(u)]
\* _extract_code_blocks that emits only blocks longer than the minimum
EmitLonger(u, st, end_line) ==
    IF st.len > min_duplicate_lines
    THEN Append(st.blocks, BlockOf(u, st, end_line))
    ELSE st.blocks
\* a block is kept when it has at least min_duplicate_lines lines
Emit(u, st, end_line) ==
    IF st.len >= min_duplicate_lines
    THEN Append(st.blocks, BlockOf(u, st, end_line))
    ELSE st.blocks
ExtractStep(u, st, i, l) ==
    IF l.kind # "code"
    THEN [blocks |-> Emit(u, st, i), start |-> st.start, len |-> 0, base |-> -1]
    ELSE IF st.base = -1
    THEN [blocks |-> st.blocks, start |-> i, len |-> 1, base |-> l.indent]
    ELSE IF l.indent >= st.base
    THEN [blocks |-> st.blocks, start |-> st.start, len |-> st.len + 1,
          base |-> st.base]
    ELSE [blocks |-> Emit(u, st, i), start |-> i, len |-> 1, base |-> l.indent]
extract_code_blocks(u) ==
    LET F[k \in 0..Len(u.lines)] ==
            IF k = 0
            THEN [blocks |-> <<>>, start |-> 0, len |-> 0, base |-> -1]
            ELSE ExtractStep(u, F[k - 1], k - 1, u.lines[k])
    IN Emit(u, F[Len(u.lines)], Len(u.lines))

\* the blocks of all files, in file order
AllBlocks(files) ==
    Flatten([k \in 1..Len(files) |-> extract_code_blocks(files[k])])

\* the indices in S, ascending
IdxSeq(n, S) == KeepSeq([i \in 1..n |-> i], S)

ExactHighLines == 20
\* the issue of one block of a hash group (the indices in grp)
ExactIssue(blocks, grp, i) ==
    Issue(Id("exact_dup", "", blocks[i].file_hash, 0, blocks[i].start_line, 0),
          "duplication",
          IF blocks[i].line_count > ExactHighLines THEN "high" ELSE "medium",
          blocks[i].file_path, blocks[i].start_line,
          Title("Exact Code Duplication", blocks[i].line_count),
          {[file_path |-> blocks[j].file_path, start_line |-> blocks[j].start_line,
            end_line |-> blocks[j].end_line] : j \in grp \ {i}})

\* _analyze_exact_duplicates: the blocks grouped by hash, the groups in the
\* order of their first block; each block of a group of more than one gets
\* an issue
analyze_exact_duplicates(files) ==
    LET blocks == AllBlocks(files)
        n == Len(blocks)
        Group(i) == {j \in 1..n : blocks[j].hash = blocks[i].hash}
        firsts == IdxSeq(n, {i \in 1..n : \A j \in 1..(i - 1) :
                                              blocks[j].hash # blocks[i].hash})
        OfGroup(i) ==
            IF Cardinality(Group(i)) > 1
               /\ blocks[i].line_count >= min_duplicate_lines
            THEN LET g == IdxSeq(n, Group(i))
                 IN [k \in 1..Len(g) |-> ExactIssue(blocks, Group(i), g[k])]
            ELSE <<>>
    IN Flatten([k \in 1..Len(firsts) |-> OfGroup(firsts[k])])

\* _calculate_similarity in percent, at the granularity of lines (the code
\* compares characters or words): twice the number of positions where the
\* two blocks hold the same line, over the sum of the lengths; 100 for equal
\* blocks
calculate_similarity(c1, c2) ==
    IF Len(c1) + Len(c2) = 0 THEN 100
    ELSE (200 * Cardinality({k \in 1..Min(Len(c1), Len(c2)) : c1[k] = c2[k]}))
            \div (Len(c1) + Len(c2))

SimilarHigh == 90
\* _analyze_similar_blocks: every pair i < j of blocks of different files
\* with similarity >= similarity_threshold gives an issue at block i, its id
\* ending in the 0-based index of block j
analyze_similar_blocks(files) ==
    LET blocks == AllBlocks(files)
        n == Len(blocks)
        Sim(i, j) == calculate_similarity(blocks[i].content, blocks[j].content)
        Pair(i, j) ==
            IF blocks[i].file_path # blocks[j].file_path
               /\ Sim(i, j) >= similarity_threshold
               /\ blocks[i].line_count >= min_duplicate_lines
            THEN <<Issue(Id("similar_dup", "", blocks[i].file_hash, 0,
                            blocks[i].start_line, j - 1),
                         "duplication",
                         IF Sim(i, j) < SimilarHigh THEN "medium" ELSE "high",
                         blocks[i].file_path, blocks[i].start_line,
                         Title("Similar Code Block", Sim(i, j)), {})>>
            ELSE <<>>
        Row(i) == Flatten([d \in 1..(n - i) |-> Pair(i, i + d)])
    IN Flatten([i \in 1..n |-> Row(i)])

\* DuplicationAnalyzer.analyze: the passes in order, then the dedup. The
\* function, class and copy-paste passes need repeated function signatures,
\* repeated method sets or numbered variable names, which the files of this
\* model do not have.
duplication_analyze(files) ==
    deduplicate_issues(analyze_exact_duplicates(files)
                       \o analyze_similar_blocks(files))

\* SecurityAnalyzer.analyze: the pattern matches of each file in file order
\* (bandit, semgrep and the dependency scans need tools and manifests that
\* are absent), then the dedup
security_analyze(files) ==
    deduplicate_issues(
        Flatten([k \in 1..Len(files) |-> FactIssues(files[k], files[k].sec)]))

\* PerformanceAnalyzer.analyze: the matches of each file in file order; no
\* dedup
performance_analyze(files) ==
    Flatten([k \in 1..Len(files) |-> FactIssues(files[k], files[k].perf)])

\* ComplexityAnalyzer.analyze: the findings of each file in file order
complexity_analyze(files) ==
    Flatten([k \in 1..Len(files) |-> FactIssues(files[k], files[k].cx)])

\* ASTAnalyzer.analyze: the Python files with a tree; the issues of the
\* pattern visitor for all of them, then those of the smell visitor
ast_analyze(files) ==
    LET python_files ==
            KeepSeq(files, {k \in 1..Len(files) :
                               files[k].language = "python" /\ files[k].ast_tree})
    IN [issues |->
            Flatten([k \in 1..Len(python_files) |->
                        FactIssues(python_files[k], python_files[k].pat)])
            \o Flatten([k \in 1..Len(python_files) |->
                           FactIssues(python_files[k], python_files[k].smell)]),
        architecture_insights |-> <<>>]

\* ========================================================================
\* agents/quality_agent.py
\* ========================================================================
\* The files the aggregator is run on, as parse_directory returns them, with
\* what the pattern passes and visitors find in each:
\*   1  a Python file, one line: def f(a, b, c, d, e, f, g, h): return a
\*   2  a JavaScript file of 5 lines, two hardcoded passwords on line 2 and
\*      two readFileSync calls on line 3
\*   3  an empty Python file
\*   4, 5  two JavaScript files with the same 6 lines
NoFacts == <<>>
CodeLines(texts) == [k \in 1..Len(texts) |-> Line("code", 0, texts[k])]
File(path, language, lines, tree, sec, perf, cx, pat) ==
    [path |-> path, language |-> language, lines |-> lines,
     line_count |-> Len(lines), complexity_score |-> 2, ast_tree |-> tree,
     sec |-> sec, perf |-> perf, cx |-> cx, pat |-> pat, smell |-> NoFacts]
SecretFact ==
    Fact("sec_hardcoded_secrets", "security", "critical", 2,
         Title("Potential Hardcoded Secrets", 0))
SyncIoFact ==
    Fact("perf_synchronous_io", "performance", "medium", 3,
         Title("Performance Issue: Synchronous Io", 0))
ParamCountFact ==
    Fact("param_count", "complexity", "medium", 1, Title("Too Many Parameters: f", 0))
LongParamListFact ==
    Fact("long_param_list", "complexity", "medium", 1,
         Title("Long Parameter List: f", 0))
MissingDocstringFact ==
    Fact("missing_docstring", "documentation", "low", 1,
         Title("Missing Docstring: f", 0))
UnitUniverse ==
    {File(1, "python", CodeLines(<<21>>), TRUE, NoFacts, NoFacts,
          <<ParamCountFact>>, <<LongParamListFact, MissingDocstringFact>>),
     File(2, "javascript", CodeLines(<<11, 12, 13, 14, 15>>), FALSE,
          <<SecretFact, SecretFact>>, <<SyncIoFact, SyncIoFact>>, NoFacts, NoFacts),
     File(3, "python", <<>>, TRUE, NoFacts, NoFacts, NoFacts, NoFacts),
     File(4, "javascript", CodeLines(<<1, 2, 3, 4, 5, 6>>), FALSE,
          NoFacts, NoFacts, NoFacts, NoFacts),
     File(5, "javascript", CodeLines(<<1, 2, 3, 4, 5, 6>>), FALSE,
          NoFacts, NoFacts, NoFacts, NoFacts)}

\* the lists of up to MaxUnits files with distinct paths, in any order
UnitLists ==
    UNION {{s \in [1..n -> UnitUniverse] :
               \A i, j \in 1..n : i # j => s[i].path # s[j].path} : n \in 0..MaxUnits}

\* What the language model answers, an input of the analysis: whether a
\* reply with JSON came at all, the additional_issues it lists and the number
\* of keys of its insights
LlmIssue ==
    [category |-> "maintainability", severity |-> "high", file_path |-> 1,
     line_number |-> 0, title |-> Title("Missing tests", 0)]
LlmReplies ==
    {[ok |-> FALSE, additional_issues |-> <<>>, insights |-> 0]}
    \cup {[ok |-> TRUE, additional_issues |-> [k \in 1..n |-> LlmIssue],
           insights |-> m] : n \in 0..MaxLlmIssues, m \in 0..1}

\* _perform_llm_analysis: the additional_issues as CodeIssue objects, built
\* without an id; an empty list when the call or the parsing failed
perform_llm_analysis(reply) ==
    IF reply.ok
    THEN [additional_issues |->
              [k \in 1..Len(reply.additional_issues) |->
                  LET d == reply.additional_issues[k]
                  IN Issue(NoId, d.category, d.severity, d.file_path,
                           d.line_number, d.title, {})],
          insights |-> reply.insights]
    ELSE [additional_issues |-> <<>>, insights |-> 0]

\* _ensure_issue_ids with an index that runs on from the previous analysis
ensure_issue_ids_running(issues) ==
    [i \in 1..Len(issues) |->
        IF issues[i].id = NoId
        THEN [issues[i] EXCEPT !.id =
                 Id("md5", issues[i].category, <<>>, issues[i].file_path,
                    issues[i].line_number, Len(a_prev.issues) + i - 1)]
        ELSE issues[i]]

\* _ensure_issue_ids: an issue without id gets the md5 of its category,
\* file path, line (0 for None) and its 0-based index in the list
ensure_issue_ids(issues) ==
    [i \in 1..Len(issues) |->
        IF issues[i].id = NoId
        THEN [issues[i] EXCEPT !.id =
                 Id("md5", issues[i].category, <<>>, issues[i].file_path,
                    issues[i].line_number, i - 1)]
        ELSE issues[i]]

\* arithmetic on fractions
RAdd(a, b) == R(a.num * b.den + b.num * a.den, a.den * b.den)
RScale(k, a) == R(k * a.num, a.den)
RMinus(k, a) == R(k * a.den - a.num, a.den)
\* round(x, 1) of a fraction x >= 0, in tenths; a tie goes to the even tenth
\* (on floats the tie goes where the binary value of x lies)
Round1(a) ==
    LET q == (10 * a.num) \div a.den
        r == (10 * a.num) % a.den
    IN IF 2 * r < a.den THEN q
       ELSE IF 2 * r > a.den THEN q + 1
       ELSE IF q % 2 = 0 THEN q ELSE q + 1

\* 'word' in issue.title.lower(), for the titles of this model
TitleHas(issue, word) == word = "test" /\ issue.title.text = "Missing tests"

\* the except branch of _calculate_quality_metrics, in tenths
DefaultMetrics ==
    [overall_score |-> 500, maintainability_index |-> 500,
     cyclomatic_complexity |-> 50, test_coverage |-> 0,
     code_duplication |-> 200, technical_debt_ratio |-> 300,
     security_score |-> 500, performance_score |-> 500,
     documentation_coverage |-> 400, dependency_health |-> 600]

SumOver(files, Get(_)) ==
    LET F[k \in 0..Len(files)] == IF k = 0 THEN 0 ELSE F[k - 1] + Get(files[k])
    IN F[Len(files)]
ComplexityOf(f) == f.complexity_score
LineCountOf(f) == f.line_count

\* _calculate_quality_metrics, every value rounded to one decimal and held
\* in tenths; complexity_score is in halves. The division by total_lines
\* raises ZeroDivisionError when it is 0 and the except branch answers.
calculate_quality_metrics(issues, parsed_files) ==
    LET InCat(c) == Count(issues, LAMBDA i : i.category = c)
        critical_issues == Count(issues, LAMBDA i : i.severity = "critical")
        high_issues == Count(issues, LAMBDA i : i.severity = "high")
        n == Len(parsed_files)
        security_score == R(Max(0, 100 - InCat("security") * 5), 1)
        performance_score == R(Max(0, 100 - InCat("performance") * 3), 1)
        avg_cyclomatic ==
            IF n > 0 THEN R(SumOver(parsed_files, ComplexityOf), 2 * n) ELSE R(1, 1)
        maintainability_index ==
            LET m == RMinus(100 - InCat("complexity") * 3, RScale(2, avg_cyclomatic))
            IN MaxR0(m.num, m.den)
        code_duplication == MinR(25 * InCat("duplication"), 10, 100)
        tech_debt_factors ==
            critical_issues * 8 + high_issues * 4 + InCat("complexity") * 2
        total_lines == IF n > 0 THEN SumOver(parsed_files, LineCountOf) ELSE 1
        technical_debt_ratio == MinR(1000 * tech_debt_factors, total_lines, 100)
        documentation_coverage == R(Max(0, 80 - InCat("documentation") * 10), 1)
        dependency_health ==
            R(Max(0, 100 - 5 * Count(issues, LAMBDA i : TitleHas(i, "dependency")
                                                      \/ TitleHas(i, "import"))), 1)
        test_coverage ==
            R(Max(0, 70 - 15 * Count(issues, LAMBDA i : TitleHas(i, "test"))), 1)
        weighted ==
            RAdd(RScale(25, security_score),
            RAdd(RScale(20, performance_score),
            RAdd(RScale(20, maintainability_index),
            RAdd(RScale(15, RMinus(100, code_duplication)),
            RAdd(RScale(10, RMinus(100, technical_debt_ratio)),
            RAdd(RScale(5, documentation_coverage),
                 RScale(5, dependency_health)))))))
        overall_score == R(weighted.num, weighted.den * 100)
    IN IF total_lines = 0
       THEN DefaultMetrics
       ELSE [overall_score |-> Round1(overall_score),
             maintainability_index |-> Round1(maintainability_index),
             cyclomatic_complexity |-> Round1(avg_cyclomatic),
             test_coverage |-> Round1(test_coverage),
             code_duplication |-> Round1(code_duplication),
             technical_debt_ratio |-> Round1(technical_debt_ratio),
             security_score |-> Round1(security_score),
             performance_score |-> Round1(performance_score),
             documentation_coverage |-> Round1(documentation_coverage),
             dependency_health |-> Round1(dependency_health)]

\* isinstance(issue, dict) for an entry of ast_analysis_result["issues"]:
\* the entries are CodeIssue objects
IsDict(issue) == FALSE

\* the architecture_insights of the response: one entry per AST issue that
\* is a dict, then one per key of the language model's insights
InsightsOf(ast_result, llm_analysis) ==
    LET dicts == KeepSeq(ast_result.issues,
                         {k \in 1..Len(ast_result.issues) : IsDict(ast_result.issues[k])})
    IN [k \in 1..Len(dicts) |->
           [type |-> dicts[k].category, file_path |-> dicts[k].file_path,
            key |-> 0]]
       \o [k \in 1..llm_analysis.insights |->
              [type |-> "llm_insight", file_path |-> 0, key |-> k]]

NoReport ==
    [issues |-> <<>>, architecture_insights |-> <<>>,
     quality_metrics |-> DefaultMetrics]
NoAst == [issues |-> <<>>, architecture_insights |-> <<>>]
NoLlm == [additional_issues |-> <<>>, insights |-> 0]

AgentIdle ==
    /\ a_pc = "idle" /\ a_run = 1 /\ a_units = <<>>
    /\ a_reply = [ok |-> FALSE, additional_issues |-> <<>>, insights |-> 0]
    /\ a_trad = <<>> /\ a_ast = NoAst /\ a_llm = NoLlm
    /\ a_report = NoReport /\ a_prev = NoReport

\* the agent is constructed; the files under codebase_path and the answer of
\* the language model are the inputs of analyze_codebase
AgentInit ==
    /\ a_pc = "start" /\ a_run = 1
    /\ a_units \in UnitLists
    /\ a_reply \in LlmReplies
    /\ a_trad = <<>> /\ a_ast = NoAst /\ a_llm = NoLlm
    /\ a_report = NoReport /\ a_prev = NoReport

\* analyze_codebase up to the first analyzer: parse_directory returns the
\* files; ValueError("No supported files found in codebase") when there is
\* none, re-raised as Exception("Analysis failed: ...")
AnalyzeStart ==
    /\ a_pc = "start"
    /\ a_pc' = IF a_units = <<>> THEN "raised" ELSE "security"
    /\ UNCHANGED <<a_run, a_units, a_reply, a_trad, a_ast, a_llm, a_report,
                   a_prev, notAgent>>

RunSecurity ==
    /\ a_pc = "security"
    /\ a_trad' = security_analyze(a_units)
    /\ a_pc' = "performance"
    /\ UNCHANGED <<a_run, a_units, a_reply, a_ast, a_llm, a_report, a_prev, notAgent>>

RunPerformance ==
    /\ a_pc = "performance"
    /\ a_trad' = a_trad \o performance_analyze(a_units)
    /\ a_pc' = "complexity"
    /\ UNCHANGED <<a_run, a_units, a_reply, a_ast, a_llm, a_report, a_prev, notAgent>>

RunComplexity ==
    /\ a_pc = "complexity"
    /\ a_trad' = a_trad \o complexity_analyze(a_units)
    /\ a_pc' = "duplication"
    /\ UNCHANGED <<a_run, a_units, a_reply, a_ast, a_llm, a_report, a_prev, notAgent>>

RunDuplication ==
    /\ a_pc = "duplication"
    /\ a_trad' = a_trad \o duplication_analyze(a_units)
    /\ a_pc' = "ast"
    /\ UNCHANGED <<a_run, a_units, a_reply, a_ast, a_llm, a_report, a_prev, notAgent>>

RunAst ==
    /\ a_pc = "ast"
    /\ a_ast' = ast_analyze(a_units)
    /\ a_pc' = "llm"
    /\ UNCHANGED <<a_run, a_units, a_reply, a_trad, a_llm, a_report, a_prev, notAgent>>

RunLlm ==
    /\ a_pc = "llm"
    /\ a_llm' = perform_llm_analysis(a_reply)
    /\ a_pc' = "aggregate"
    /\ UNCHANGED <<a_run, a_units, a_reply, a_trad, a_ast, a_report, a_prev, notAgent>>

\* the rest of analyze_codebase: all_issues, ids, metrics, insights and the
\* AnalysisResponse
Aggregate ==
    /\ a_pc = "aggregate"
    /\ LET all_issues == ensure_issue_ids(a_trad \o a_llm.additional_issues)
       IN a_report' =
              [issues |-> all_issues,
               architecture_insights |-> InsightsOf(a_ast, a_llm),
               quality_metrics |-> calculate_quality_metrics(all_issues, a_units)]
    /\ a_pc' = "done"
    /\ UNCHANGED <<a_run, a_units, a_reply, a_trad, a_ast, a_llm, a_prev, notAgent>>

\* the caller keeps the response and calls analyze_codebase again on the
\* same agent and the same codebase
AnalyzeAgain ==
    /\ a_pc = "done" /\ a_run < MaxRuns
    /\ a_prev' = a_report
    /\ a_run' = a_run + 1
    /\ a_pc' = "start"
    /\ a_trad' = <<>> /\ a_ast' = NoAst /\ a_llm' = NoLlm
    /\ UNCHANGED <<a_units, a_reply, a_report, notAgent>>

AgentNext ==
    \/ AnalyzeStart
    \/ RunSecurity
    \/ RunPerformance
    \/ RunComplexity
    \/ RunDuplication
    \/ RunAst
    \/ RunLlm
    \/ Aggregate
    \/ AnalyzeAgain

\* ------------------------------------------------------------------------
\* Properties of analyze_codebase
\* ------------------------------------------------------------------------
\* the issues the five analyzers return for the files
DetectorIssues ==
    Range(security_analyze(a_units)) \cup Range(performance_analyze(a_units))
    \cup Range(complexity_analyze(a_units)) \cup Range(duplication_analyze(a_units))
    \cup Range(ast_analyze(a_units).issues)

\* C3: every finding the security, performance, complexity and duplication
\* detectors and the AST analyzer return is in the issues of the report of
\* analyze_codebase, or the report holds a finding with its (file, line,
\* title).
C3_NoFindingDropped ==
    a_pc = "done" =>
        \A f \in DetectorIssues :
            \E k \in 1..Len(a_report.issues) :
                DedupKey(a_report.issues[k]) = DedupKey(f)

TotalLines == SumOver(a_units, LineCountOf)

\* C7: analysing an empty list of files does not raise: it ends with a
\* report of zero findings, zero insights and default metrics; nor does an
\* analysis raise when the files have zero lines in total.
C7_EmptyListGivesReport ==
    /\ (TotalLines = 0 => a_pc # "raised")
    /\ (a_units = <<>> /\ a_pc = "done" =>
           /\ a_report.issues = <<>>
           /\ a_report.architecture_insights = <<>>
           /\ a_report.quality_metrics = DefaultMetrics)

IdsOf(issues) == [k \in 1..Len(issues) |-> issues[k].id]

C12_ReportKeysDistinct ==
    a_pc = "done" =>
        \A i, j \in 1..Len(a_report.issues) :
            i # j => DedupKey(a_report.issues[i]) # DedupKey(a_report.issues[j])

\* the weighted sum of the sub-scores of metrics m, in thousandths: security
\* 0.25, performance 0.20, maintainability 0.20, duplication 0.15, technical
\* debt 0.10, documentation 0.05, dependency health 0.05
WeightedSum(m) ==
    25 * m.security_score + 20 * m.performance_score
    + 20 * m.maintainability_index + 15 * (1000 - m.code_duplication)
    + 10 * (1000 - m.technical_debt_ratio) + 5 * m.documentation_coverage
    + 5 * m.dependency_health

\* C13: whatever the findings and the files, the overall score of the
\* quality metrics is the weighted sum of the sub-scores (to the rounding of
\* the reported values, 0.1), and the overall score and each of the seven
\* sub-scores lie between 0 and 100.
C13_OverallIsWeightedSum ==
    a_pc = "done" =>
        LET m == a_report.quality_metrics
        IN /\ 100 * m.overall_score - WeightedSum(m) <= 100
           /\ WeightedSum(m) - 100 * m.overall_score <= 100
           /\ \A score \in {m.overall_score, m.security_score, m.performance_score,
                            m.maintainability_index, m.code_duplication,
                            m.technical_debt_ratio, m.documentation_coverage,
                            m.dependency_health} :
                 score >= 0 /\ score <= 1000

\* C14: every finding of the report has a non-empty id, and no two findings
\* of the report have the same id, whatever the files (files of identical
\* content and several findings on one line included).
C14_IdsPresentAndDistinct ==
    a_pc = "done" =>
        /\ \A i \in 1..Len(a_report.issues) : a_report.issues[i].id # NoId
        /\ \A i, j \in 1..Len(a_report.issues) :
              i # j => a_report.issues[i].id # a_report.issues[j].id

\* the lines of Python file u where a function with 8 or more positional
\* parameters and no docstring is defined
LongUndocumentedAt(u) ==
    {l \in 1..Max(u.line_count, 1) :
        /\ u.language = "python" /\ u.ast_tree
        /\ \E k \in 1..Len(u.pat) :
              u.pat[k].rule = "long_param_list" /\ u.pat[k].line = l
        /\ \E k \in 1..Len(u.pat) :
              u.pat[k].rule = "missing_docstring" /\ u.pat[k].line = l}

\* the report has a finding of one of the rules at a line of a file
Reported(rules, file_path, l) ==
    \E k \in 1..Len(a_report.issues) :
        /\ a_report.issues[k].id.src \in rules
        /\ a_report.issues[k].file_path = file_path
        /\ a_report.issues[k].line_number = l

\* C15: for every parsed Python file with a function of 8 or more positional
\* parameters and no docstring, the findings of the analysis hold, at the
\* line of that function, a long-parameter-list finding (of the AST analyzer
\* or of the complexity analyzer) and a missing-docstring finding.
C15_LongListAndDocstring ==
    a_pc = "done" =>
        \A i \in 1..Len(a_units) : \A l \in LongUndocumentedAt(a_units[i]) :
            /\ Reported({"long_param_list", "param_count"}, a_units[i].path, l)
            /\ Reported({"missing_docstring"}, a_units[i].path, l)

\* ========================================================================
\* DuplicationAnalyzer.analyze on a file and a second file next to it
\* ========================================================================
\* the lines a content is made of, and the contents of up to MaxLines lines
LineKinds ==
    {Line("blank", 0, 0), Line("comment", 0, 0)}
    \cup {Line("code", n, 0) : n \in 0..MaxIndent}
Contents == UNION {[1..n -> LineKinds] : n \in 0..MaxLines}

\* the second file: a byte-identical copy, or the content with another
\* first line
OtherContent(content, twin) ==
    IF twin \/ content = <<>> THEN content
    ELSE [content EXCEPT ![1] = Line("code", 0, 1)]
DupFiles(content, twin) ==
    <<File(1, "javascript", content, FALSE, NoFacts, NoFacts, NoFacts, NoFacts),
      File(2, "javascript", OtherContent(content, twin), FALSE, NoFacts, NoFacts,
           NoFacts, NoFacts)>>

DupIdle ==
    /\ d_pc = "idle" /\ d_content = <<>> /\ d_twin = FALSE /\ d_issues = <<>>

DupInit ==
    /\ d_pc = "start"
    /\ d_content \in Contents
    /\ d_twin \in BOOLEAN
    /\ d_issues = <<>>

\* DuplicationAnalyzer.analyze on the two files
DupAnalyze ==
    /\ d_pc = "start"
    /\ d_issues' = duplication_analyze(DupFiles(d_content, d_twin))
    /\ d_pc' = "done"
    /\ UNCHANGED <<d_content, d_twin, notDup>>

DupNext == DupAnalyze

\* ------------------------------------------------------------------------
\* Properties of the duplication analysis
\* ------------------------------------------------------------------------
\* an exact-duplication finding located in file p whose description lists a
\* location in file q
ExactFindingIn(p, q) ==
    \E k \in 1..Len(d_issues) :
        /\ d_issues[k].title.text = "Exact Code Duplication"
        /\ d_issues[k].file_path = p
        /\ \E r \in d_issues[k].refs : r.file_path = q

\* the content holds min_duplicate_lines consecutive code lines (neither
\* blank nor comment) none of which is indented less than the first
HasRun(content) ==
    \E a \in 1..Len(content) :
        LET b == a + min_duplicate_lines - 1 IN
        /\ b <= Len(content)
        /\ \A k \in a..b : /\ content[k].kind = "code"
                           /\ content[k].indent >= content[a].indent

\* C4 as stated: two files with byte-identical content of at least 5 lines
\* each get an exact-duplication finding that names the copy in the other.
C4_IdenticalFilesReported ==
    d_pc = "done" /\ d_twin /\ Len(d_content) >= min_duplicate_lines =>
        ExactFindingIn(1, 2) /\ ExactFindingIn(2, 1)

\* C4 amended: the same, for identical content that holds 5 consecutive
\* code lines none indented less than the first of them.
C4_IdenticalBlocksReported ==
    d_pc = "done" /\ d_twin /\ HasRun(d_content) =>
        ExactFindingIn(1, 2) /\ ExactFindingIn(2, 1)

\* C4 witness: identical files that hold a line that is not code and a run
\* of 5 code lines, both reported
C4_Witness ==
    /\ d_pc = "done" /\ d_twin /\ HasRun(d_content)
    /\ \E k \in 1..Len(d_content) : d_content[k].kind # "code"
    /\ ExactFindingIn(1, 2) /\ ExactFindingIn(2, 1)

\* ========================================================================
\* analyzers/complexity_analyzer.py: _analyze_python_cyclomatic
\* ========================================================================
\* The tree of one Python file, walked in the order ast.NodeVisitor walks
\* it: a function definition is entered, the nodes of its body are visited,
\* and it is left. A function is named by the line of its definition.
NoFunction == 0

\* a function definition the walk is inside of: the locals of the
\* visit_FunctionDef call (old_function, old_complexity), and own, the
\* cyclomatic complexity of the function itself: 1 plus the decision points
\* of its body outside the functions nested in it
Frame(kind, lineno, old_function, old_complexity, own) ==
    [kind |-> kind, lineno |-> lineno, old_function |-> old_function,
     old_complexity |-> old_complexity, own |-> own]

Top(stack) == stack[Len(stack)]
Pop(stack) == SubSeq(stack, 1, Len(stack) - 1)
Charge(stack, k) ==
    [stack EXCEPT ![Len(stack)].own = stack[Len(stack)].own + k]

\* the CodeIssue built for an entry of visitor.functions
CyclomaticIssue(func_info) ==
    Issue(Id("cyclomatic", "", <<>>, 0, func_info.lineno, 0), "complexity",
          IF func_info.complexity > complexity_thresholds.cyclomatic.high
          THEN "high" ELSE "medium",
          1, func_info.lineno,
          Title("High Cyclomatic Complexity", func_info.lineno), {})

\* the loop over visitor.functions
CyclomaticIssues(functions) ==
    LET over == KeepSeq(functions,
                        {k \in 1..Len(functions) :
                            functions[k].complexity
                                > complexity_thresholds.cyclomatic.medium})
    IN [k \in 1..Len(over) |-> CyclomaticIssue(over[k])]

CycloIdle ==
    /\ c_pc = "idle"
    /\ c_current_function = NoFunction
    /\ c_complexity = 1
    /\ c_stack = <<>>
    /\ c_functions = <<>>
    /\ c_truth = {}
    /\ c_lineno = 0
    /\ c_issues = <<>>

\* ComplexityVisitor.__init__
CycloInit ==
    /\ c_pc = "visit"
    /\ c_current_function = NoFunction
    /\ c_complexity = 1
    /\ c_stack = <<>>
    /\ c_functions = <<>>
    /\ c_truth = {}
    /\ c_lineno = 0
    /\ c_issues = <<>>

\* visit_FunctionDef up to generic_visit: a 'def' is entered
VisitFunctionDef ==
    /\ c_pc = "visit"
    /\ c_lineno < MaxFunctions
    /\ Len(c_stack) < MaxFunctionNesting
    /\ c_lineno' = c_lineno + 1
    /\ c_stack' = Append(c_stack, Frame("def", c_lineno + 1, c_current_function,
                                        c_complexity, 1))
    /\ c_current_function' = c_lineno + 1
    /\ c_complexity' = 1
    /\ UNCHANGED <<c_pc, c_functions, c_truth, c_issues, notCyclo>>

\* an 'async def' is entered: the visitor has no visit_AsyncFunctionDef, so
\* NodeVisitor.visit falls to generic_visit and the visitor's fields stay
VisitAsyncFunctionDef ==
    /\ c_pc = "visit"
    /\ c_lineno < MaxFunctions
    /\ Len(c_stack) < MaxFunctionNesting
    /\ c_lineno' = c_lineno + 1
    /\ c_stack' = Append(c_stack, Frame("async", c_lineno + 1, c_current_function,
                                        c_complexity, 1))
    /\ UNCHANGED <<c_pc, c_current_function, c_complexity, c_functions, c_truth,
                   c_issues, notCyclo>>

\* visit_If, visit_While, visit_For, visit_AsyncFor, visit_ExceptHandler,
\* visit_With, visit_Assert: the seven methods have the same body
VisitDecision ==
    /\ c_pc = "visit"
    /\ Len(c_stack) > 0
    /\ Top(c_stack).own < MaxComplexity
    /\ c_complexity < MaxComplexity
    /\ c_complexity' = IF c_current_function # NoFunction
                       THEN c_complexity + 1 ELSE c_complexity
    /\ c_stack' = Charge(c_stack, 1)
    /\ UNCHANGED <<c_pc, c_current_function, c_functions, c_truth, c_lineno,
                   c_issues, notCyclo>>

\* visit_BoolOp for an 'and' or 'or' of n operands
VisitBoolOp ==
    /\ c_pc = "visit"
    /\ Len(c_stack) > 0
    /\ \E n \in 2..MaxOperands :
        /\ Top(c_stack).own + n - 1 <= MaxComplexity
        /\ c_complexity + n - 1 <= MaxComplexity
        /\ c_complexity' = IF c_current_function # NoFunction
                           THEN c_complexity + n - 1 ELSE c_complexity
        /\ c_stack' = Charge(c_stack, n - 1)
    /\ UNCHANGED <<c_pc, c_current_function, c_functions, c_truth, c_lineno,
                   c_issues, notCyclo>>

\* the walk leaves a function definition: for a 'def' the rest of
\* visit_FunctionDef (the append to functions, the restore of the saved
\* state); for an 'async def' the return from generic_visit
LeaveFunction ==
    /\ c_pc = "visit"
    /\ Len(c_stack) > 0
    /\ LET top == Top(c_stack)
       IN /\ IF top.kind = "def"
             THEN /\ c_functions' = Append(c_functions,
                                           [lineno |-> top.lineno,
                                            complexity |-> c_complexity])
                  /\ c_current_function' = top.old_function
                  /\ c_complexity' = top.old_complexity
             ELSE UNCHANGED <<c_functions, c_current_function, c_complexity>>
          /\ c_truth' = c_truth \cup {[lineno |-> top.lineno, kind |-> top.kind,
                                       own |-> top.own]}
    /\ c_stack' = Pop(c_stack)
    /\ UNCHANGED <<c_pc, c_lineno, c_issues, notCyclo>>

\* the walk is over: the loop over visitor.functions builds the issues
CyclomaticReport ==
    /\ c_pc = "visit"
    /\ c_stack = <<>>
    /\ c_lineno > 0
    /\ c_issues' = CyclomaticIssues(c_functions)
    /\ c_pc' = "done"
    /\ UNCHANGED <<c_current_function, c_complexity, c_stack, c_functions,
                   c_truth, c_lineno, notCyclo>>

CycloNext ==
    \/ VisitFunctionDef
    \/ VisitAsyncFunctionDef
    \/ VisitDecision
    \/ VisitBoolOp
    \/ LeaveFunction
    \/ CyclomaticReport

\* the cyclomatic findings reported for the function defined at a line
FindingsFor(lineno) ==
    {k \in 1..Len(c_issues) : c_issues[k].line_number = lineno}

\* C5: for every function of a parsed Python file, a cyclomatic complexity
\* of 10 or less produces no high-cyclomatic-complexity finding, one of 11
\* to 15 produces exactly one finding, of MEDIUM severity, and one above 15
\* produces exactly one finding, of HIGH severity.
C5_FindingPerFunction ==
    c_pc = "done" =>
        \A f \in c_truth :
            LET found == FindingsFor(f.lineno)
            IN /\ f.own <= 10 => found = {}
               /\ (f.own >= 11 /\ f.own <= 15) =>
                     /\ Cardinality(found) = 1
                     /\ \A k \in found : c_issues[k].severity = "medium"
               /\ f.own > 15 =>
                     /\ Cardinality(found) = 1
                     /\ \A k \in found : c_issues[k].severity = "high"

\* ========================================================================
\* analyzers/complexity_analyzer.py: _analyze_python_nesting
\* ========================================================================
\* The tree of one Python file, walked in the order ast.NodeVisitor walks
\* it: a nesting construct is entered, its children are visited, and it is
\* left. A construct is located by its line. The visitor is one per file,
\* and 'elif' is an If node in the orelse of an If node.
Constructs == {"if", "while", "for", "try", "with"}

\* the 'current_depth > 5' of the visit methods
DeepNestingThreshold == 5

\* visit_If, visit_While, visit_For, visit_Try, visit_With after the
\* increment of current_depth: max_depth and depth_locations for a construct
\* of kind construct entered at line lineno, at depth current_depth
NoteDepthAlways(current_depth, lineno, construct) ==
    [max_depth |-> Max(n_max_depth, current_depth),
     depth_locations |->
        IF current_depth > DeepNestingThreshold
        THEN Append(n_depth_locations,
                    [line_no |-> lineno, depth |-> current_depth,
                     construct |-> construct])
        ELSE n_depth_locations]
NoteDepth(current_depth, lineno, construct) ==
    IF current_depth > n_max_depth
    THEN [max_depth |-> current_depth,
          depth_locations |->
             IF current_depth > DeepNestingThreshold
             THEN Append(n_depth_locations,
                         [line_no |-> lineno, depth |-> current_depth,
                          construct |-> construct])
             ELSE n_depth_locations]
    ELSE [max_depth |-> n_max_depth, depth_locations |-> n_depth_locations]

\* f"Deep Nesting: {construct} at depth {depth}"
NestingTitle(construct, depth) ==
    Title(CASE construct = "if" -> "Deep Nesting: if at depth"
            [] construct = "while" -> "Deep Nesting: while at depth"
            [] construct = "for" -> "Deep Nesting: for at depth"
            [] construct = "try" -> "Deep Nesting: try at depth"
            [] construct = "with" -> "Deep Nesting: with at depth",
          depth)

\* the CodeIssue built for an entry of visitor.depth_locations
NestingIssue(loc) ==
    Issue(Id("nesting", "", <<>>, 0, loc.line_no, 0), "complexity",
          IF loc.depth > complexity_thresholds.nesting_depth.high
          THEN "high" ELSE "medium",
          1, loc.line_no, NestingTitle(loc.construct, loc.depth), {})

\* the loop over visitor.depth_locations
NestingIssues(depth_locations) ==
    [k \in 1..Len(depth_locations) |-> NestingIssue(depth_locations[k])]

NestIdle ==
    /\ n_pc = "idle"
    /\ n_current_depth = 0
    /\ n_max_depth = 0
    /\ n_depth_locations = <<>>
    /\ n_lineno = 0
    /\ n_deepest = 0
    /\ n_only_if = TRUE
    /\ n_issues = <<>>

\* NestingVisitor.__init__
NestInit ==
    /\ n_pc = "visit"
    /\ n_current_depth = 0
    /\ n_max_depth = 0
    /\ n_depth_locations = <<>>
    /\ n_lineno = 0
    /\ n_deepest = 0
    /\ n_only_if = TRUE
    /\ n_issues = <<>>

\* visit_If, visit_While, visit_For, visit_Try, visit_With up to
\* generic_visit: a construct is entered
EnterConstruct ==
    /\ n_pc = "visit"
    /\ n_lineno < MaxNodes
    /\ n_current_depth < MaxNest
    /\ \E construct \in Constructs :
        LET noted == NoteDepth(n_current_depth + 1, n_lineno + 1, construct)
        IN /\ n_max_depth' = noted.max_depth
           /\ n_depth_locations' = noted.depth_locations
           /\ n_only_if' = (n_only_if /\ construct = "if")
    /\ n_current_depth' = n_current_depth + 1
    /\ n_lineno' = n_lineno + 1
    /\ n_deepest' = Max(n_deepest, n_current_depth + 1)
    /\ UNCHANGED <<n_pc, n_issues, notNest>>

\* the 'current_depth -= 1' after generic_visit: a construct is left
LeaveConstruct ==
    /\ n_pc = "visit"
    /\ n_current_depth > 0
    /\ n_current_depth' = n_current_depth - 1
    /\ UNCHANGED <<n_pc, n_max_depth, n_depth_locations, n_lineno, n_deepest,
                   n_only_if, n_issues, notNest>>

\* the walk is over: the loop over visitor.depth_locations builds the issues
NestingReport ==
    /\ n_pc = "visit"
    /\ n_current_depth = 0
    /\ n_lineno > 0
    /\ n_issues' = NestingIssues(n_depth_locations)
    /\ n_pc' = "done"
    /\ UNCHANGED <<n_current_depth, n_max_depth, n_depth_locations, n_lineno,
                   n_deepest, n_only_if, notNest>>

NestNext ==
    \/ EnterConstruct
    \/ LeaveConstruct
    \/ NestingReport

\* C6: when the nesting of a Python file goes 6 levels deep and no deeper,
\* the nesting analysis returns exactly one deep-nesting finding and it
\* reports depth 6 (of an 'if' when the constructs are all 'if'); whatever
\* the file, no finding reports a depth of 1 to 5.
C6_SixLevelsOneFinding ==
    n_pc = "done" =>
        /\ \A k \in 1..Len(n_issues) : n_issues[k].title.n > 5
        /\ n_deepest = 6 =>
              /\ Len(n_issues) = 1
              /\ n_issues[1].title.n = 6
              /\ n_only_if => n_issues[1].title = NestingTitle("if", 6)

\* six nested 'if's, then more 'if's at depths already seen, and one finding
C6_Witness ==
    /\ n_pc = "done"
    /\ n_deepest = 6
    /\ n_only_if
    /\ n_lineno > 6
    /\ Len(n_issues) = 1
    /\ n_issues[1].title = NestingTitle("if", 6)
    /\ n_issues[1].line_number = 6

\* C20: when the deepest nesting of a Python file is d > 5, every
\* deep-nesting finding of the nesting analysis reports depth d
C20_OnlyMaximumDepth ==
    (n_pc = "done" /\ n_deepest > DeepNestingThreshold) =>
        \A k \in 1..Len(n_issues) : n_issues[k].title.n = n_deepest

\* what does hold: the findings report the depths from 6 up to the deepest
\* one, once each and in rising order, so the last one reports the maximum
C20_OnePerNewMaximum ==
    n_pc = "done" =>
        /\ Len(n_issues) = Max(n_deepest - DeepNestingThreshold, 0)
        /\ \A k \in 1..Len(n_issues) :
              n_issues[k].title.n = DeepNestingThreshold + k
        /\ n_max_depth = n_deepest

\* ========================================================================
\* analyzers/security_analyzer.py, analyzers/duplication_analyzer.py:
\* analyze and _deduplicate_issues
\* ========================================================================
\* The two analyzers gather five sub-passes each, extend all_issues with
\* their results in task order, and return _deduplicate_issues(all_issues);
\* the two _deduplicate_issues have the same body.
Analyzers == {"security", "duplication"}
SubPasses(analyzer) ==
    IF analyzer = "security"
    THEN <<"patterns", "bandit", "semgrep", "dependencies", "configurations">>
    ELSE <<"exact", "similar", "function", "class", "copy_paste">>

\* the places (file_path, line_number) and title numbers of the findings:
\* keys that differ in the file only, in the line only, in the title only
FindingKeys == {<<1, 1, 1>>, <<2, 1, 1>>, <<1, 2, 1>>, <<1, 1, 2>>}
SubPassTitle(analyzer, t) ==
    IF analyzer = "security"
    THEN (IF t = 1 THEN "Potential Sql Injection"
          ELSE "Potential Hardcoded Secrets")
    ELSE (IF t = 1 THEN "Exact Code Duplication" ELSE "Similar Code Block")

\* a finding of sub-pass k of an analyzer; its id tells the sub-pass
SubPassIssue(analyzer, k, file_path, line_number, text) ==
    Issue(Id(SubPasses(analyzer)[k], "", <<>>, 0, line_number, 0), analyzer,
          "medium", file_path, line_number, Title(text, 0), {})

\* the sub-pass an issue of all_issues came from
PassOf(analyzer, issue) ==
    CHOOSE k \in 1..Len(SubPasses(analyzer)) :
        SubPasses(analyzer)[k] = issue.id.src

\* the body of the loop of _deduplicate_issues for one issue
SeenAfterNone(seen, issue) == seen
SeenAfter(seen, issue) == seen \cup {DedupKey(issue)}
UniqueAfter(seen, unique_issues, issue) ==
    IF DedupKey(issue) \notin seen THEN Append(unique_issues, issue)
    ELSE unique_issues

DedupIdle ==
    /\ q_pc = "idle"
    /\ q_analyzer = "security"
    /\ q_all_issues = <<>>
    /\ q_issues = <<>>
    /\ q_i = 1
    /\ q_seen = {}
    /\ q_unique_issues = <<>>
    /\ q_round = 1
    /\ q_returned = <<>>

DedupInit ==
    /\ q_pc = "gather"
    /\ q_analyzer \in Analyzers
    /\ q_all_issues = <<>>
    /\ q_issues = <<>>
    /\ q_i = 1
    /\ q_seen = {}
    /\ q_unique_issues = <<>>
    /\ q_round = 1
    /\ q_returned = <<>>

\* analyze: all_issues.extend(result), one issue of a result at a time; the
\* results come in the order of the tasks
ExtendAllIssues ==
    /\ q_pc = "gather"
    /\ Len(q_all_issues) < MaxIssues
    /\ \E k \in 1..Len(SubPasses(q_analyzer)), key \in FindingKeys :
        /\ q_all_issues # <<>> =>
              PassOf(q_analyzer, q_all_issues[Len(q_all_issues)]) <= k
        /\ q_all_issues' =
              Append(q_all_issues,
                     SubPassIssue(q_analyzer, k, key[1], key[2],
                                  SubPassTitle(q_analyzer, key[3])))
    /\ UNCHANGED <<q_pc, q_analyzer, q_issues, q_i, q_seen, q_unique_issues,
                   q_round, q_returned, notDedup>>

\* analyze calls self._deduplicate_issues(all_issues)
CallDeduplicate ==
    /\ q_pc = "gather"
    /\ q_pc' = "dedup"
    /\ q_issues' = q_all_issues
    /\ q_i' = 1
    /\ q_seen' = {}
    /\ q_unique_issues' = <<>>
    /\ UNCHANGED <<q_analyzer, q_all_issues, q_round, q_returned, notDedup>>

\* one iteration of 'for issue in issues'
DeduplicateStep ==
    /\ q_pc = "dedup"
    /\ q_i <= Len(q_issues)
    /\ q_seen' = SeenAfter(q_seen, q_issues[q_i])
    /\ q_unique_issues' = UniqueAfter(q_seen, q_unique_issues, q_issues[q_i])
    /\ q_i' = q_i + 1
    /\ UNCHANGED <<q_pc, q_analyzer, q_all_issues, q_issues, q_round,
                   q_returned, notDedup>>

\* 'return unique_issues': analyze returns it to its caller
DeduplicateReturn ==
    /\ q_pc = "dedup"
    /\ q_i > Len(q_issues)
    /\ q_round = 1
    /\ q_returned' = q_unique_issues
    /\ q_pc' = "returned"
    /\ UNCHANGED <<q_analyzer, q_all_issues, q_issues, q_i, q_seen,
                   q_unique_issues, q_round, notDedup>>

\* _deduplicate_issues is called on what analyze returned
DeduplicateAgain ==
    /\ q_pc = "returned"
    /\ q_pc' = "dedup"
    /\ q_round' = 2
    /\ q_issues' = q_returned
    /\ q_i' = 1
    /\ q_seen' = {}
    /\ q_unique_issues' = <<>>
    /\ UNCHANGED <<q_analyzer, q_all_issues, q_returned, notDedup>>

\* the return of that second call
DeduplicateAgainReturn ==
    /\ q_pc = "dedup"
    /\ q_i > Len(q_issues)
    /\ q_round = 2
    /\ q_pc' = "done"
    /\ UNCHANGED <<q_analyzer, q_all_issues, q_issues, q_i, q_seen,
                   q_unique_issues, q_round, q_returned, notDedup>>

DedupNext ==
    \/ ExtendAllIssues
    \/ CallDeduplicate
    \/ DeduplicateStep
    \/ DeduplicateReturn
    \/ DeduplicateAgain
    \/ DeduplicateAgainReturn

\* the positions of all_issues that hold the first finding of their key
FirstOfKey ==
    {i \in 1..Len(q_all_issues) :
        \A j \in 1..(i - 1) : DedupKey(q_all_issues[j]) # DedupKey(q_all_issues[i])}

\* C11: the list analyze returns holds no two findings with the same
\* (file_path, line_number, title); it is exactly the findings of all_issues
\* that are the first of their key in sub-pass order, in the order they have
\* in all_issues; and _deduplicate_issues applied to it returns it unchanged.
C11_DeduplicatedFirstSeen ==
    /\ q_pc \in {"returned", "done"} =>
          /\ \A i, j \in 1..Len(q_returned) :
                i # j => DedupKey(q_returned[i]) # DedupKey(q_returned[j])
          /\ Len(q_returned) = Cardinality(FirstOfKey)
          /\ \E pos \in [1..Len(q_returned) -> FirstOfKey] :
                /\ \A i, j \in 1..Len(q_returned) : i < j => pos[i] < pos[j]
                /\ \A i \in 1..Len(q_returned) : q_returned[i] = q_all_issues[pos[i]]
          /\ \A i \in 1..Len(q_all_issues) : i \in FirstOfKey =>
                \A j \in 1..Len(q_all_issues) :
                    DedupKey(q_all_issues[j]) = DedupKey(q_all_issues[i]) =>
                        PassOf(q_analyzer, q_all_issues[i])
                            <= PassOf(q_analyzer, q_all_issues[j])
    /\ q_pc = "done" => q_unique_issues = q_returned

\* two findings of different sub-passes share a key, a third has its own:
\* the one of the earlier sub-pass and the third are returned
C11_Witness ==
    /\ q_pc = "done"
    /\ Len(q_all_issues) = 3
    /\ Len(q_returned) = 2
    /\ \E i, j \in 1..3 :
          /\ i < j
          /\ DedupKey(q_all_issues[i]) = DedupKey(q_all_issues[j])
          /\ q_all_issues[i].id # q_all_issues[j].id
          /\ q_returned[1] = q_all_issues[i] \/ q_returned[2] = q_all_issues[i]

\* ========================================================================
\* analyzers/security_analyzer.py: _analyze_with_patterns
\* ========================================================================
\* vulnerability_patterns, in the order of the dict: the classes
VulnOrder ==
    <<"sql_injection", "xss", "hardcoded_secrets", "path_traversal",
      "command_injection", "insecure_random", "weak_crypto">>

severity_mapping ==
    [sql_injection |-> "critical", xss |-> "high",
     hardcoded_secrets |-> "critical", path_traversal |-> "high",
     command_injection |-> "critical", insecure_random |-> "medium",
     weak_crypto |-> "high"]

\* "sec_" + vuln_type, and f"Potential {vuln_type.replace('_', ' ').title()}"
PatternNames ==
    [sql_injection |-> [rule |-> "sec_sql_injection",
                        title |-> "Potential Sql Injection"],
     xss |-> [rule |-> "sec_xss", title |-> "Potential Xss"],
     hardcoded_secrets |-> [rule |-> "sec_hardcoded_secrets",
                            title |-> "Potential Hardcoded Secrets"],
     path_traversal |-> [rule |-> "sec_path_traversal",
                         title |-> "Potential Path Traversal"],
     command_injection |-> [rule |-> "sec_command_injection",
                            title |-> "Potential Command Injection"],
     insecure_random |-> [rule |-> "sec_insecure_random",
                          title |-> "Potential Insecure Random"],
     weak_crypto |-> [rule |-> "sec_weak_crypto",
                      title |-> "Potential Weak Crypto"]]

\* a character of the content: a newline or not, and the classes that have
\* a pattern matching from this character on ('eval(x + 1)' is matched by a
\* pattern of xss and by one of command_injection)
Char(nl, matches) == [nl |-> nl, matches |-> matches]
Chars ==
    {Char(TRUE, {}), Char(FALSE, {})}
    \cup {Char(FALSE, {c}) : c \in VulnTypes}
    \cup {Char(FALSE, {"xss", "command_injection"})}

\* file_info.content[:match.start()].count('\n') + 1, for the match that
\* starts at the o-th character
LineNumberAtZero(content, o) ==
    Cardinality({k \in 1..(o - 1) : content[k].nl})
LineNumberAt(content, o) ==
    Cardinality({k \in 1..(o - 1) : content[k].nl}) + 1

\* the issues built for the matches of one class, in the order of finditer
PatternIssues(path, content, vuln_type) ==
    LET starts == KeepSeq([o \in 1..Len(content) |-> o],
                          {o \in 1..Len(content) : vuln_type \in content[o].matches})
    IN [k \in 1..Len(starts) |->
           Issue(Id(PatternNames[vuln_type].rule, "", content, 0,
                    LineNumberAt(content, starts[k]), 0),
                 "security", severity_mapping[vuln_type], path,
                 LineNumberAt(content, starts[k]),
                 Title(PatternNames[vuln_type].title, 0), {})]

\* _analyze_with_patterns for one file
analyze_with_patterns(path, content) ==
    Flatten([t \in 1..Len(VulnOrder) |-> PatternIssues(path, content, VulnOrder[t])])

ScanIdle ==
    /\ v_pc = "idle"
    /\ v_content = <<>>
    /\ v_line = 1
    /\ v_matches = {}
    /\ v_issues = <<>>

ScanInit ==
    /\ v_pc = "write"
    /\ v_content = <<>>
    /\ v_line = 1
    /\ v_matches = {}
    /\ v_issues = <<>>

\* the file is written, a character at a time
WriteChar ==
    /\ v_pc = "write"
    /\ Len(v_content) < MaxChars
    /\ \E ch \in Chars :
        /\ v_content' = Append(v_content, ch)
        /\ v_line' = IF ch.nl THEN v_line + 1 ELSE v_line
        /\ v_matches' = v_matches \cup
              {[vuln_type |-> c, line |-> v_line] : c \in ch.matches}
    /\ UNCHANGED <<v_pc, v_issues, notScan>>

\* SecurityAnalyzer.analyze on the file: the pattern sub-pass is the first
\* of all_issues (the other sub-passes find nothing here), then
\* _deduplicate_issues
PatternScan ==
    /\ v_pc = "write"
    /\ v_issues' = deduplicate_issues(analyze_with_patterns(1, v_content))
    /\ v_pc' = "done"
    /\ UNCHANGED <<v_content, v_line, v_matches, notScan>>

ScanNext ==
    \/ WriteChar
    \/ PatternScan

\* C16: for every match of a pattern of a class in the file, analyze returns
\* a finding of that file and class whose line number is the line the match
\* starts on (1 plus the newlines before it) and whose severity is critical
\* for sql_injection, command_injection and hardcoded_secrets, high for xss,
\* path_traversal and weak_crypto, medium for insecure_random.
C16_MatchReportedAtLine ==
    v_pc = "done" =>
        \A m \in v_matches :
            \E k \in 1..Len(v_issues) :
                /\ v_issues[k].file_path = 1
                /\ v_issues[k].title.text = PatternNames[m.vuln_type].title
                /\ v_issues[k].line_number = m.line
                /\ v_issues[k].severity =
                      (IF m.vuln_type \in {"sql_injection", "command_injection",
                                           "hardcoded_secrets"} THEN "critical"
                       ELSE IF m.vuln_type \in {"xss", "path_traversal",
                                                "weak_crypto"} THEN "high"
                       ELSE "medium")

\* a match of sql_injection on line 3 and one of insecure_random on line 1,
\* both reported
C16_Witness ==
    /\ v_pc = "done"
    /\ [vuln_type |-> "sql_injection", line |-> 3] \in v_matches
    /\ [vuln_type |-> "insecure_random", line |-> 1] \in v_matches
    /\ \E k \in 1..Len(v_issues) :
          /\ v_issues[k].line_number = 3 /\ v_issues[k].severity = "critical"
    /\ \E k \in 1..Len(v_issues) :
          /\ v_issues[k].line_number = 1 /\ v_issues[k].severity = "medium"

\* ========================================================================
\* analyzers/duplication_analyzer.py: _normalize_code, _calculate_similarity
\* ========================================================================
\* A code text is a sequence of characters; the placeholders VAR, "STRING"
\* and NUM that _normalize_code writes are held as one symbol each.
Letters == {"a", "b", "x"}
Digits == {"1", "2", "5"}
Spaces == {" ", "\n"}
IsWordChar(ch) == ch \in Letters \cup Digits \cup {"_", "VAR", "STRING", "NUM"}

\* whether text holds the characters of marker from position i on
HoldsAt(text, i, marker) ==
    /\ i + Len(marker) - 1 <= Len(text)
    /\ SubSeq(text, i, i + Len(marker) - 1) = marker

\* re.sub(marker + r'.*$', '', code, flags=re.MULTILINE) for the markers
\* '#' and '//': from the marker to the end of its line
StripLineComments(code, marker) ==
    LET Gone[i \in 0..Len(code)] ==
            IF i = 0 THEN FALSE
            ELSE IF code[i] = "\n" THEN FALSE
            ELSE Gone[i - 1] \/ HoldsAt(code, i, marker)
    IN KeepSeq(code, {i \in 1..Len(code) : ~Gone[i]})

\* re.sub(r'/\*.*?\*/', '', code, flags=re.DOTALL): from '/*' to the next '*/'
StripBlockComments(code) ==
    LET Ends(i) == {j \in (i + 2)..Len(code) : HoldsAt(code, j, <<"*", "/">>)}
        Rest[i \in 1..(Len(code) + 2)] ==
            IF i > Len(code) THEN <<>>
            ELSE IF HoldsAt(code, i, <<"/", "*">>) /\ Ends(i) # {}
                 THEN Rest[(CHOOSE j \in Ends(i) : \A k \in Ends(i) : j <= k) + 2]
                 ELSE <<code[i]>> \o Rest[i + 1]
    IN Rest[1]

\* re.sub(r'\s+', ' ', code)
CollapseWhitespace(code) ==
    LET one == [i \in 1..Len(code) |->
                   IF code[i] \in Spaces THEN " " ELSE code[i]]
    IN KeepSeq(one, {i \in 1..Len(code) :
                        ~(code[i] \in Spaces /\ i > 1 /\ code[i - 1] \in Spaces)})

\* the position where the run of word characters that holds position i starts
RunStart(code, i) ==
    CHOOSE s \in 1..i :
        /\ \A k \in s..i : IsWordChar(code[k])
        /\ (s = 1 \/ ~IsWordChar(code[s - 1]))
\* and where it ends
RunEnd(code, i) ==
    CHOOSE e \in i..Len(code) :
        /\ \A k \in i..e : IsWordChar(code[k])
        /\ (e = Len(code) \/ ~IsWordChar(code[e + 1]))

\* re.sub(r'\b[a-zA-Z_][a-zA-Z0-9_]*\b', 'VAR', code): the runs of word
\* characters that start with a letter or an underscore
ReplaceNames(code) ==
    LET Named(i) == /\ IsWordChar(code[i])
                    /\ code[RunStart(code, i)] \in Letters \cup {"_"}
        one == [i \in 1..Len(code) |->
                   IF Named(i) /\ RunStart(code, i) = i THEN "VAR" ELSE code[i]]
    IN KeepSeq(one, {i \in 1..Len(code) : ~(Named(i) /\ RunStart(code, i) # i)})

\* re.sub(r'"[^"]*"', '"STRING"', code), and the same with the quote ':
\* from a quote to the next one
ReplaceStrings(code, quote) ==
    LET Closes(i) == {j \in (i + 1)..Len(code) : code[j] = quote}
        Rest[i \in 1..(Len(code) + 1)] ==
            IF i > Len(code) THEN <<>>
            ELSE IF code[i] = quote /\ Closes(i) # {}
                 THEN <<quote, "STRING", quote>>
                      \o Rest[(CHOOSE j \in Closes(i) : \A k \in Closes(i) : j <= k) + 1]
                 ELSE <<code[i]>> \o Rest[i + 1]
    IN Rest[1]

\* re.sub(r'\b\d+\b', 'NUM', code): the runs of word characters that are
\* all digits
ReplaceNumbers(code) ==
    LET Numeric(i) ==
            /\ IsWordChar(code[i])
            /\ \A k \in RunStart(code, i)..RunEnd(code, i) : code[k] \in Digits
        one == [i \in 1..Len(code) |->
                   IF Numeric(i) /\ RunStart(code, i) = i THEN "NUM" ELSE code[i]]
    IN KeepSeq(one, {i \in 1..Len(code) : ~(Numeric(i) /\ RunStart(code, i) # i)})

\* str.strip()
Strip(code) ==
    KeepSeq(code, {i \in 1..Len(code) :
                      /\ \E k \in 1..i : code[k] \notin Spaces
                      /\ \E k \in i..Len(code) : code[k] \notin Spaces})

\* _normalize_code
normalize_code(code) ==
    Strip(ReplaceNumbers(ReplaceStrings(ReplaceStrings(ReplaceNames(
        CollapseWhitespace(StripBlockComments(StripLineComments(
            StripLineComments(code, <<"#">>), <<"/", "/">>)))), "\""), "'")))

\* difflib.SequenceMatcher.find_longest_match on a[alo..ahi-1], b[blo..bhi-1]:
\* the longest common block, the earliest in a, then the earliest in b
\* (<<0, 0, 0>> when there is none)
find_longest_match(a, alo, ahi, b, blo, bhi) ==
    LET blocks == {t \in (alo..(ahi - 1)) \X (blo..(bhi - 1)) \X (1..(ahi - alo)) :
                      /\ t[1] + t[3] <= ahi /\ t[2] + t[3] <= bhi
                      /\ SubSeq(a, t[1], t[1] + t[3] - 1)
                            = SubSeq(b, t[2], t[2] + t[3] - 1)}
    IN IF blocks = {} THEN <<0, 0, 0>>
       ELSE CHOOSE t \in blocks :
                \A u \in blocks :
                    \/ t[3] > u[3]
                    \/ t[3] = u[3] /\ t[1] < u[1]
                    \/ t[3] = u[3] /\ t[1] = u[1] /\ t[2] <= u[2]

\* the total size of get_matching_blocks: the longest match, then the same
\* to its left and to its right
RECURSIVE MatchingSize(_, _, _, _, _, _)
MatchingSize(a, alo, ahi, b, blo, bhi) ==
    LET t == find_longest_match(a, alo, ahi, b, blo, bhi)
    IN IF t[3] = 0 THEN 0
       ELSE t[3] + MatchingSize(a, alo, t[1], b, blo, t[2])
                 + MatchingSize(a, t[1] + t[3], ahi, b, t[2] + t[3], bhi)

\* _calculate_similarity with difflib: SequenceMatcher(None, text1,
\* text2).ratio(), 2.0 * matches / (len(text1) + len(text2)), 1.0 for two
\* empty texts; a placeholder counts as one character here, which leaves a
\* ratio of 1.0 a ratio of 1.0
sequence_ratio(text1, text2) ==
    IF Len(text1) + Len(text2) = 0 THEN R(1, 1)
    ELSE R(2 * MatchingSize(text1, 1, Len(text1) + 1, text2, 1, Len(text2) + 1),
           Len(text1) + Len(text2))

\* the names, the numeric literals and the string literals of the blocks
Names == {<<"a">>, <<"b", "1">>}
NumericLiterals == {<<"1">>, <<"2", ".", "5">>}
StringLiterals == {<<"\"", "a", "\"">>, <<"\"", "#", "\"">>}
Punctuation == {<<"=">>, <<" ">>, <<"\n">>}

NormIdle ==
    /\ m_pc = "idle"
    /\ m_code1 = <<>> /\ m_code2 = <<>>
    /\ m_last = FALSE
    /\ m_tokens = 0
    /\ m_norm1 = <<>> /\ m_norm2 = <<>>
    /\ m_similarity = R(0, 1)

NormInit ==
    /\ m_pc = "write"
    /\ m_code1 = <<>> /\ m_code2 = <<>>
    /\ m_last = FALSE
    /\ m_tokens = 0
    /\ m_norm1 = <<>> /\ m_norm2 = <<>>
    /\ m_similarity = R(0, 1)

\* the two blocks get a token each, of the same kind
Write(t1, t2, word) ==
    /\ m_code1' = m_code1 \o t1
    /\ m_code2' = m_code2 \o t2
    /\ m_last' = word
    /\ m_tokens' = m_tokens + 1
    /\ UNCHANGED <<m_pc, m_norm1, m_norm2, m_similarity, notNorm>>

\* a name in each block, after something that is no name and no number
WriteName ==
    /\ m_pc = "write" /\ m_tokens < MaxTokens /\ ~m_last
    /\ \E t1, t2 \in Names : Write(t1, t2, TRUE)

\* a numeric literal in each block
WriteNumber ==
    /\ m_pc = "write" /\ m_tokens < MaxTokens /\ ~m_last
    /\ \E t1, t2 \in NumericLiterals : Write(t1, t2, TRUE)

\* a string literal in each block, after something that is no name and no
\* number
WriteString ==
    /\ m_pc = "write" /\ m_tokens < MaxTokens /\ ~m_last
    /\ \E t1, t2 \in StringLiterals : Write(t1, t2, FALSE)

\* the same operator or whitespace in both blocks
WritePunctuation ==
    /\ m_pc = "write" /\ m_tokens < MaxTokens
    /\ \E t \in Punctuation : Write(t, t, FALSE)

\* _normalize_code of each block, then _calculate_similarity of the two
NormalizeBoth ==
    /\ m_pc = "write"
    /\ m_norm1' = normalize_code(m_code1)
    /\ m_norm2' = normalize_code(m_code2)
    /\ m_similarity' = sequence_ratio(normalize_code(m_code1), normalize_code(m_code2))
    /\ m_pc' = "done"
    /\ UNCHANGED <<m_code1, m_code2, m_last, m_tokens, notNorm>>

NormNext ==
    \/ WriteName
    \/ WriteNumber
    \/ WriteString
    \/ WritePunctuation
    \/ NormalizeBoth

\* C17: two blocks that differ only in their names and in the values of
\* their string and numeric literals have the same _normalize_code, and the
\* _calculate_similarity of their normalized texts is 1.0.
C17_SameNormalForm ==
    m_pc = "done" =>
        /\ m_norm1 = m_norm2
        /\ m_similarity.num = m_similarity.den

\* ========================================================================
\* Where a raise inside a detector sub-pass is caught:
\* analyzers/complexity_analyzer.py (analyze, _analyze_function_complexity,
\* _analyze_nesting_depth) and analyzers/duplication_analyzer.py (analyze,
\* _analyze_copy_paste_patterns), called by analyze_codebase
\* ========================================================================
\* the sub-passes followed here, and the rule each one reports
Passes == {"long_function", "deep_nesting", "copy_paste_pattern"}

\* a file as these sub-passes see it: which of them has a finding in it
GuardFiles == [long_function : BOOLEAN, deep_nesting : BOOLEAN,
               copy_paste_pattern : BOOLEAN]

\* the raise: the sub-pass and the file (by position) being processed when
\* it happens, before the file's finding is appended; NoFault when none
NoFault == [pass |-> "", file |-> 0]
Faults == {NoFault} \cup [pass : Passes, file : 1..MaxFiles]

\* a sub-pass that raised: what asyncio.gather(return_exceptions=True)
\* hands back in its place
Raised == "Exception"

PassIssue(pass, i) ==
    Issue(Id(pass, "", <<>>, i, 1, 0),
          IF pass = "copy_paste_pattern" THEN "duplication" ELSE "complexity",
          IF pass = "copy_paste_pattern" THEN "low" ELSE "medium",
          i, 1, Title(pass, 0), {})

FaultAt(fault, pass, files) ==
    IF fault.pass = pass /\ fault.file \in 1..Len(files) THEN fault.file ELSE 0

\* _analyze_function_complexity: one loop over the files with no try; a
\* raise leaves the coroutine
analyze_function_complexity(files, fault) ==
    IF FaultAt(fault, "long_function", files) # 0 THEN Raised
    ELSE Flatten([i \in 1..Len(files) |->
                    IF files[i].long_function
                    THEN <<PassIssue("long_function", i)>> ELSE <<>>])

\* _analyze_nesting_depth: each file goes through _analyze_python_nesting,
\* whose body is one try; a raise ends that file only
analyze_nesting_depth(files, fault) ==
    Flatten([i \in 1..Len(files) |->
                IF files[i].deep_nesting /\ FaultAt(fault, "deep_nesting", files) # i
                THEN <<PassIssue("deep_nesting", i)>> ELSE <<>>])

\* _analyze_copy_paste_patterns: the loop over the files is inside one try;
\* a raise ends the loop and the issues appended so far are returned
analyze_copy_paste_patterns(files, fault) ==
    LET at == FaultAt(fault, "copy_paste_pattern", files)
        last == IF at = 0 THEN Len(files) ELSE at - 1
    IN Flatten([i \in 1..last |->
                   IF files[i].copy_paste_pattern
                   THEN <<PassIssue("copy_paste_pattern", i)>> ELSE <<>>])

\* the loop over the results of gather: lists are added, exceptions logged
ExtendWithLists(results) ==
    Flatten([k \in 1..Len(results) |->
                IF results[k] = Raised THEN <<>> ELSE results[k]])

\* ComplexityAnalyzer.analyze (the other four sub-passes find nothing here)
ComplexityAnalyzerAnalyze(files, fault) ==
    ExtendWithLists(<<analyze_function_complexity(files, fault),
                      analyze_nesting_depth(files, fault)>>)

\* DuplicationAnalyzer.analyze (the other four sub-passes find nothing here)
DuplicationAnalyzerAnalyze(files, fault) ==
    deduplicate_issues(
        ExtendWithLists(<<analyze_copy_paste_patterns(files, fault)>>))

GuardIdle ==
    /\ g_pc = "idle"
    /\ g_files = <<>>
    /\ g_fault = NoFault
    /\ g_complexity_issues = <<>>
    /\ g_traditional_issues = <<>>

GuardInit ==
    /\ g_pc = "files"
    /\ g_files = <<>>
    /\ g_fault \in Faults
    /\ g_complexity_issues = <<>>
    /\ g_traditional_issues = <<>>

\* the parsed files, one at a time
AddGuardFile ==
    /\ g_pc = "files"
    /\ Len(g_files) < MaxFiles
    /\ \E f \in GuardFiles : g_files' = Append(g_files, f)
    /\ UNCHANGED <<g_pc, g_fault, g_complexity_issues, g_traditional_issues,
                   notGuard>>

\* analyze_codebase: complexity_issues = await complexity_analyzer.analyze
RunComplexityAnalyzer ==
    /\ g_pc = "files"
    /\ Len(g_files) > 0
    /\ g_complexity_issues' = ComplexityAnalyzerAnalyze(g_files, g_fault)
    /\ g_pc' = "duplication"
    /\ UNCHANGED <<g_files, g_fault, g_traditional_issues, notGuard>>

\* analyze_codebase: duplication_issues = await duplication_analyzer.analyze,
\* then traditional_issues is the sum of the detectors' lists
RunDuplicationAnalyzer ==
    /\ g_pc = "duplication"
    /\ g_traditional_issues' =
          g_complexity_issues \o DuplicationAnalyzerAnalyze(g_files, g_fault)
    /\ g_pc' = "done"
    /\ UNCHANGED <<g_files, g_fault, g_complexity_issues, notGuard>>

GuardNext ==
    \/ AddGuardFile
    \/ RunComplexityAnalyzer
    \/ RunDuplicationAnalyzer

ReportedBy(pass, i) ==
    \E k \in 1..Len(g_traditional_issues) :
        g_traditional_issues[k] = PassIssue(pass, i)

\* C18: when the processing of one file in one sub-pass raises, the combined
\* findings still hold every finding of every other file in that sub-pass,
\* and every finding of every file in the sibling sub-passes and in the other
\* detector
C18_SiblingFindingsSurvive ==
    g_pc = "done" =>
        \A i \in 1..Len(g_files) : \A pass \in Passes :
            (g_files[i][pass] /\ ~(g_fault.pass = pass /\ g_fault.file = i))
                => ReportedBy(pass, i)

\* what does hold: a raise in one sub-pass costs nothing in the sibling
\* sub-passes or in the other detector
C18_SiblingPassesSurvive ==
    g_pc = "done" =>
        \A i \in 1..Len(g_files) : \A pass \in Passes :
            (g_files[i][pass] /\ g_fault.pass # pass) => ReportedBy(pass, i)

\* ========================================================================
\* utils/code_parser.py: parse_directory, the batches of parse_file calls
\* ========================================================================
\* batch = supported_files[i:i + batch_size], as positions of supported_files
\* (1-based); i is the offset of the loop
BatchAll(i, n) == (i + 1)..n
Batch(i, n) == {k \in (i + 1)..n : k <= i + batch_size}

\* what a parse_file task hands to gather: the unit of the file, or the
\* exception it raised
ParsedUnit(k) == [unit |-> TRUE, file |-> k]
ParseError == [unit |-> FALSE, file |-> 0]

\* the loop over batch_results: units are appended in the order of the
\* batch, exceptions are logged
AppendUnits(files, batch, results) ==
    LET F[k \in 0..MaxSupported] ==
            IF k = 0 THEN files
            ELSE IF k \in batch /\ results[k] # ParseError
                 THEN Append(F[k - 1], results[k])
                 ELSE F[k - 1]
    IN F[MaxSupported]

BatchIdle ==
    /\ b_pc = "idle"
    /\ b_supported = 0
    /\ b_i = 0
    /\ b_started = {}
    /\ b_results = <<>>
    /\ b_files = <<>>
    /\ b_parses = <<>>

BatchInit ==
    /\ b_pc = "walk"
    /\ b_supported = 0
    /\ b_i = 0
    /\ b_started = {}
    /\ b_results = <<>>
    /\ b_files = <<>>
    /\ b_parses = <<>>

\* os.walk meets a supported file: supported_files.append(file_path)
CollectFile ==
    /\ b_pc = "walk"
    /\ b_supported < MaxSupported
    /\ b_supported' = b_supported + 1
    /\ b_parses' = Append(b_parses, 0)
    /\ UNCHANGED <<b_pc, b_i, b_started, b_results, b_files, notBatch>>

\* the walk is over; the loop over the batches begins
StartBatches ==
    /\ b_pc = "walk"
    /\ b_pc' = IF b_supported = 0 THEN "done" ELSE "gather"
    /\ UNCHANGED <<b_supported, b_i, b_started, b_results, b_files, b_parses,
                   notBatch>>

\* a parse_file task of the batch handed to gather starts to run
StartParse ==
    /\ b_pc = "gather"
    /\ \E k \in Batch(b_i, b_supported) \ b_started :
        /\ b_started' = b_started \cup {k}
        /\ b_parses' = [b_parses EXCEPT ![k] = @ + 1]
    /\ UNCHANGED <<b_pc, b_supported, b_i, b_results, b_files, notBatch>>

\* a running parse_file task returns its unit or raises
FinishParse ==
    /\ b_pc = "gather"
    /\ \E k \in b_started \ DOMAIN b_results :
       \E r \in {ParsedUnit(k), ParseError} :
            b_results' = (k :> r) @@ b_results
    /\ UNCHANGED <<b_pc, b_supported, b_i, b_started, b_files, b_parses,
                   notBatch>>

\* gather returns when every task of the batch is over; the units are
\* appended and the loop moves to the next batch or ends
GatherReturn ==
    /\ b_pc = "gather"
    /\ Batch(b_i, b_supported) \subseteq DOMAIN b_results
    /\ b_files' = AppendUnits(b_files, Batch(b_i, b_supported), b_results)
    /\ b_i' = b_i + batch_size
    /\ b_pc' = IF b_i + batch_size < b_supported THEN "gather" ELSE "done"
    /\ UNCHANGED <<b_supported, b_started, b_results, b_parses, notBatch>>

BatchNext ==
    \/ CollectFile
    \/ StartBatches
    \/ StartParse
    \/ FinishParse
    \/ GatherReturn

\* the parses that have started and are not over
InFlight == b_started \ DOMAIN b_results

\* the batch a position of supported_files falls in, counted from 0
BatchNo(k) == (k - 1) \div batch_size

\* the files whose parse returned a unit, in the order they were collected
UnitsInOrder ==
    KeepSeq([k \in 1..b_supported |-> ParsedUnit(k)],
            {k \in 1..b_supported : k \in DOMAIN b_results
                                    /\ b_results[k] # ParseError})

\* C19: in a directory scan no parse of a batch has started while a parse of
\* an earlier batch is not over, at most batch_size parses are in flight, no
\* file is parsed twice, and at the end every collected file has been parsed
\* exactly once and the returned units are those of the files that parsed,
\* in the order the files were collected
C19_BatchesInOrder ==
    /\ \A k \in b_started : \A j \in 1..b_supported :
          BatchNo(j) < BatchNo(k) => j \in DOMAIN b_results
    /\ Cardinality(InFlight) <= batch_size
    /\ \A k \in 1..b_supported : b_parses[k] <= 1
    /\ b_pc = "done" =>
          /\ \A k \in 1..b_supported : b_parses[k] = 1
          /\ b_files = UnitsInOrder

\* a scan of more than one batch is over: a parse failed in the first batch,
\* and units of the first and of the second batch were returned
C19_Witness ==
    /\ b_pc = "done"
    /\ b_supported > batch_size
    /\ \E k \in 1..batch_size : b_results[k] = ParseError
    /\ \E a, b \in 1..Len(b_files) :
          /\ a < b
          /\ BatchNo(b_files[a].file) = 0
          /\ BatchNo(b_files[b].file) = 1

\* ========================================================================
\* analyzers/complexity_analyzer.py: _analyze_python_cognitive,
\* CognitiveComplexityVisitor on one function
\* ========================================================================
\* the nodes the visitor has a method for, as they sit on the path from the
\* function to the node being visited
Conditionals == {"if", "while", "for"}

\* visit_If, visit_While, visit_For: the score and the nesting level when
\* the node is entered
CognitiveConditional(cognitive_score, nesting_level) ==
    [cognitive_score |-> cognitive_score + 1 + nesting_level,
     nesting_level |-> nesting_level + 1]

\* visit_Try: the score when a try statement is entered
CognitiveTry(cognitive_score, nesting_level) == cognitive_score + 1

\* visit_ExceptHandler: the score when a handler of a try is entered
CognitiveHandler(cognitive_score, nesting_level) ==
    cognitive_score + 1 + nesting_level

\* visit_BoolOp: the score for an 'and' or 'or' expression
CognitiveBoolOp(cognitive_score, nesting_level) == cognitive_score + 1

CogIdle ==
    /\ k_pc = "idle"
    /\ k_path = <<>>
    /\ k_cognitive_score = 0
    /\ k_nesting_level = 0
    /\ k_nodes = 0
    /\ k_seen = [conditionals |-> 0, tries |-> 0, handlers |-> 0,
                 boolops |-> 0, nested |-> 0]
    /\ k_functions = <<>>

\* visit_FunctionDef up to generic_visit: the function is entered
CogInit ==
    /\ k_pc = "visit"
    /\ k_path = <<>>
    /\ k_cognitive_score = 0
    /\ k_nesting_level = 0
    /\ k_nodes = 0
    /\ k_seen = [conditionals |-> 0, tries |-> 0, handlers |-> 0,
                 boolops |-> 0, nested |-> 0]
    /\ k_functions = <<>>

\* an if, while or for statement is entered
CognitiveVisitConditional ==
    /\ k_pc = "visit"
    /\ k_nodes < MaxCogNodes
    /\ \E construct \in Conditionals :
        k_path' = Append(k_path, construct)
    /\ LET r == CognitiveConditional(k_cognitive_score, k_nesting_level)
       IN /\ k_cognitive_score' = r.cognitive_score
          /\ k_nesting_level' = r.nesting_level
    /\ k_nodes' = k_nodes + 1
    /\ k_seen' = [k_seen EXCEPT !.conditionals = @ + 1 + k_nesting_level]
    /\ UNCHANGED <<k_pc, k_functions, notCog>>

\* a try statement is entered
CognitiveVisitTry ==
    /\ k_pc = "visit"
    /\ k_nodes < MaxCogNodes
    /\ k_path' = Append(k_path, "try")
    /\ k_cognitive_score' = CognitiveTry(k_cognitive_score, k_nesting_level)
    /\ k_nodes' = k_nodes + 1
    /\ k_seen' = [k_seen EXCEPT !.tries = @ + 1]
    /\ UNCHANGED <<k_pc, k_nesting_level, k_functions, notCog>>

\* a handler of the try statement being visited is entered
CognitiveVisitExceptHandler ==
    /\ k_pc = "visit"
    /\ k_nodes < MaxCogNodes
    /\ Len(k_path) > 0
    /\ k_path[Len(k_path)] = "try"
    /\ k_path' = Append(k_path, "handler")
    /\ k_cognitive_score' = CognitiveHandler(k_cognitive_score, k_nesting_level)
    /\ k_nodes' = k_nodes + 1
    /\ k_seen' = [k_seen EXCEPT !.handlers = @ + 1,
                                !.nested = @ + k_nesting_level]
    /\ UNCHANGED <<k_pc, k_nesting_level, k_functions, notCog>>

\* an 'and' or 'or' expression is visited, wherever the visitor is
CognitiveVisitBoolOp ==
    /\ k_pc = "visit"
    /\ k_nodes < MaxCogNodes
    /\ k_cognitive_score' = CognitiveBoolOp(k_cognitive_score, k_nesting_level)
    /\ k_nodes' = k_nodes + 1
    /\ k_seen' = [k_seen EXCEPT !.boolops = @ + 1]
    /\ UNCHANGED <<k_pc, k_path, k_nesting_level, k_functions, notCog>>

\* generic_visit of the node being visited returns: the nesting level is
\* restored after a conditional or a loop
CognitiveLeave ==
    /\ k_pc = "visit"
    /\ Len(k_path) > 0
    /\ k_nesting_level' =
          IF k_path[Len(k_path)] \in Conditionals
          THEN k_nesting_level - 1 ELSE k_nesting_level
    /\ k_path' = SubSeq(k_path, 1, Len(k_path) - 1)
    /\ UNCHANGED <<k_pc, k_cognitive_score, k_nodes, k_seen, k_functions,
                   notCog>>

\* visit_FunctionDef after generic_visit: the function's score is recorded
CognitiveLeaveFunction ==
    /\ k_pc = "visit"
    /\ Len(k_path) = 0
    /\ k_nodes > 0
    /\ k_functions' = Append(k_functions, [cognitive_score |-> k_cognitive_score])
    /\ k_pc' = "done"
    /\ UNCHANGED <<k_path, k_cognitive_score, k_nesting_level, k_nodes,
                   k_seen, notCog>>

CogNext ==
    \/ CognitiveVisitConditional
    \/ CognitiveVisitTry
    \/ CognitiveVisitExceptHandler
    \/ CognitiveVisitBoolOp
    \/ CognitiveLeave
    \/ CognitiveLeaveFunction

\* C21: the cognitive complexity recorded for a function is the sum of
\* 1 + nesting level over its if, while and for statements, plus one per try
\* statement, one per handler and one per boolean expression, whatever the
\* nesting level these sit at
C21_FlatExceptionCost ==
    k_pc = "done" =>
        k_functions[1].cognitive_score =
            k_seen.conditionals + k_seen.tries + k_seen.handlers
            + k_seen.boolops

\* what does hold: each handler costs 1 plus the nesting level it sits at
C21_HandlerCostsNesting ==
    k_pc = "done" =>
        k_functions[1].cognitive_score =
            k_seen.conditionals + k_seen.tries + k_seen.handlers
            + k_seen.nested + k_seen.boolops

\* and the level is the number of if, while and for statements on the path
C21_NestingIsPath ==
    k_nesting_level =
        Cardinality({i \in 1..Len(k_path) : k_path[i] \in Conditionals})

\* ========================================================================
\* utils/code_parser.py: _calculate_python_complexity, node by node
\* ========================================================================
\* the nodes ast.walk hands to the loop, as far as the loop tells them apart:
\* a Try carries its number of handlers, a BoolOp its number of operands
\* (its 'op' child, an And or an Or, is the node the loop counts)
WalkNodes ==
    [kind : {"If", "While", "For", "AsyncFor", "comprehension", "Name"},
     n : {0}]
    \cup [kind : {"Try"}, n : 0..MaxHandlers]
    \cup [kind : {"BoolOp"}, n : 2..MaxOperands]

\* the body of the loop over ast.walk(tree) for one node and its operator
ComplexityAfter(complexity, node) ==
    CASE node.kind \in {"If", "While", "For", "AsyncFor"} -> complexity + 1
      [] node.kind = "Try" -> complexity + node.n
      [] node.kind = "BoolOp" -> complexity + 1
      [] node.kind = "comprehension" -> complexity + 1
      [] OTHER -> complexity

AstWalkIdle ==
    /\ w_pc = "idle"
    /\ w_complexity = 0
    /\ w_walked = 0
    /\ w_tree = [branches |-> 0, handlers |-> 0, operators |-> 0,
                 boolops |-> 0, clauses |-> 0]
    /\ w_result = 0

\* 'complexity = 1' before the loop
AstWalkInit ==
    /\ w_pc = "walk"
    /\ w_complexity = 1
    /\ w_walked = 0
    /\ w_tree = [branches |-> 0, handlers |-> 0, operators |-> 0,
                 boolops |-> 0, clauses |-> 0]
    /\ w_result = 0

\* one turn of the loop; w_tree counts what the tree holds
WalkNode ==
    /\ w_pc = "walk"
    /\ w_walked < MaxWalk
    /\ \E node \in WalkNodes :
        /\ w_complexity' = ComplexityAfter(w_complexity, node)
        /\ w_tree' =
              CASE node.kind \in {"If", "While", "For", "AsyncFor"} ->
                      [w_tree EXCEPT !.branches = @ + 1]
                [] node.kind = "Try" -> [w_tree EXCEPT !.handlers = @ + node.n]
                [] node.kind = "BoolOp" ->
                      [w_tree EXCEPT !.operators = @ + node.n - 1,
                                     !.boolops = @ + 1]
                [] node.kind = "comprehension" ->
                      [w_tree EXCEPT !.clauses = @ + 1]
                [] OTHER -> w_tree
    /\ w_walked' = w_walked + 1
    /\ UNCHANGED <<w_pc, w_result, notAstWalk>>

\* 'return float(complexity)'
WalkReturn ==
    /\ w_pc = "walk"
    /\ w_walked > 0
    /\ w_result' = w_complexity
    /\ w_pc' = "done"
    /\ UNCHANGED <<w_complexity, w_walked, w_tree, notAstWalk>>

AstWalkNext ==
    \/ WalkNode
    \/ WalkReturn

\* C22: the complexity score of a Python file is 1, plus 1 per if, while and
\* for, plus the number of handlers of each try, plus the number of operands
\* minus one of each 'and'/'or' expression, plus 1 per comprehension clause
C22_OperandsMinusOne ==
    w_pc = "done" =>
        w_result = 1 + w_tree.branches + w_tree.handlers + w_tree.operators
                   + w_tree.clauses

\* what does hold: each 'and'/'or' expression adds 1, whatever its number of
\* operands
C22_OnePerBoolOp ==
    w_pc = "done" =>
        w_result = 1 + w_tree.branches + w_tree.handlers + w_tree.boolops
                   + w_tree.clauses

\* ========================================================================
\* analyzers/complexity_analyzer.py: _analyze_js_cyclomatic and
\* _analyze_java_cyclomatic on one file
\* ========================================================================
\* A line as the two scans see it: whether the start regex matches it and
\* with what name, and how many matches complexity_patterns has in it.
\* In JavaScript a start is a declaration ('function f(') or an expression
\* ('=> {', 'f: function'); for an expression the name regex matches on its
\* second or third alternative and group(1) is None. In Java a start is a
\* 'method' and group(2) is its name.
StartKinds ==
    [javascript |-> {"none", "declaration", "expression"},
     java |-> {"none", "method"}]
PatternCounts == {0, 5, 9, 10, 15}

\* current_function after a start line: None (0) when group(1) is None
NameOf(start) == IF start = "expression" THEN 0 ELSE 1

\* the CodeIssue both scans build for a function over the medium threshold
RegexCyclomaticIssue(language, start_line, complexity) ==
    Issue(Id(IF language = "java" THEN "java_cyclomatic" ELSE "js_cyclomatic",
             "", <<>>, 0, start_line, 0),
          "complexity",
          IF complexity > complexity_thresholds.cyclomatic.high
          THEN "high" ELSE "medium",
          1, start_line, Title("High Cyclomatic Complexity", start_line), {})

\* 'if current_function and function_complexity > medium: issues.append'
FlushFunction(issues, language, current, complexity, start_line) ==
    IF current # 0 /\ complexity > complexity_thresholds.cyclomatic.medium
    THEN Append(issues, RegexCyclomaticIssue(language, start_line, complexity))
    ELSE issues

RegexIdle ==
    /\ j_pc = "idle"
    /\ j_language = "javascript"
    /\ j_lines = <<>>
    /\ j_current = 0
    /\ j_complexity = 0
    /\ j_start_line = 0
    /\ j_issues = <<>>

\* the locals before the loop over the lines
RegexInit ==
    /\ j_pc = "scan"
    /\ j_language \in {"javascript", "java"}
    /\ j_lines = <<>>
    /\ j_current = 0
    /\ j_complexity = 0
    /\ j_start_line = 0
    /\ j_issues = <<>>

\* one turn of either loop on the next line of the file: a start line
\* reports the function before it and opens a new one, then the line's
\* matches are counted when a function is open
ScanLine(language) ==
    /\ j_pc = "scan"
    /\ j_language = language
    /\ Len(j_lines) < MaxScanLines
    /\ \E start \in StartKinds[language] : \E count \in PatternCounts :
        LET line_num == Len(j_lines) + 1
            current == IF start = "none" THEN j_current ELSE NameOf(start)
            base == IF start = "none" THEN j_complexity ELSE 1
        IN /\ j_lines' = Append(j_lines, [start |-> start, count |-> count])
           /\ j_issues' =
                 IF start = "none" THEN j_issues
                 ELSE FlushFunction(j_issues, language, j_current,
                                    j_complexity, j_start_line)
           /\ j_current' = current
           /\ j_start_line' = IF start = "none" THEN j_start_line ELSE line_num
           /\ j_complexity' = IF current # 0 THEN base + count ELSE base
    /\ UNCHANGED <<j_pc, j_language, notRegex>>

JsScanLine ==
    /\ ScanLine("javascript")

JavaScanLine ==
    /\ ScanLine("java")

\* _analyze_js_cyclomatic after the loop: 'Handle last function', return
JsReturn ==
    /\ j_pc = "scan"
    /\ j_language = "javascript"
    /\ Len(j_lines) > 0
    /\ j_issues' = FlushFunction(j_issues, j_language, j_current,
                                 j_complexity, j_start_line)
    /\ j_pc' = "done"
    /\ UNCHANGED <<j_language, j_lines, j_current, j_complexity, j_start_line,
                   notRegex>>

\* _analyze_java_cyclomatic after the loop: return
JavaReturn ==
    /\ j_pc = "scan"
    /\ j_language = "java"
    /\ Len(j_lines) > 0
    /\ j_pc' = "done"
    /\ UNCHANGED <<j_language, j_lines, j_current, j_complexity, j_start_line,
                   j_issues, notRegex>>

RegexNext ==
    \/ JsScanLine
    \/ JavaScanLine
    \/ JsReturn
    \/ JavaReturn

\* the lines the start regex matches, and for such a line 1 plus the matches
\* from it up to the next start line or the end of the file
StartLines == {i \in 1..Len(j_lines) : j_lines[i].start # "none"}
BodyEnd(i) ==
    IF \E k \in StartLines : k > i
    THEN (CHOOSE k \in StartLines : k > i /\ \A m \in StartLines : m > i => k <= m) - 1
    ELSE Len(j_lines)
RECURSIVE SumCounts(_, _)
SumCounts(a, b) == IF a > b THEN 0 ELSE j_lines[a].count + SumCounts(a + 1, b)
CountedComplexity(i) == 1 + SumCounts(i, BodyEnd(i))
FindingsAt(i) == {k \in 1..Len(j_issues) : j_issues[k].line_number = i}

\* C23: in a JavaScript/TypeScript or Java file every function start the
\* scan detects, wherever it is in the file, whose counted complexity is
\* above 10 has exactly one finding at its start line, medium up to 15 and
\* high above
C23_EveryDetectedFunction ==
    j_pc = "done" =>
        \A i \in StartLines :
            CountedComplexity(i) > complexity_thresholds.cyclomatic.medium =>
                /\ Cardinality(FindingsAt(i)) = 1
                /\ \A k \in FindingsAt(i) :
                      j_issues[k].severity =
                          IF CountedComplexity(i)
                                > complexity_thresholds.cyclomatic.high
                          THEN "high" ELSE "medium"

\* what does hold: the claim for the function declarations of a JavaScript
\* file and for the Java methods that are followed by another method, and
\* no finding anywhere else
C23_DeclarationsAndInnerMethods ==
    j_pc = "done" =>
        /\ \A i \in StartLines :
              (/\ CountedComplexity(i) > complexity_thresholds.cyclomatic.medium
               /\ j_lines[i].start # "expression"
               /\ (j_language = "java" => BodyEnd(i) < Len(j_lines)))
              => /\ Cardinality(FindingsAt(i)) = 1
                 /\ \A k \in FindingsAt(i) :
                       j_issues[k].severity =
                           IF CountedComplexity(i)
                                 > complexity_thresholds.cyclomatic.high
                           THEN "high" ELSE "medium"
        /\ \A k \in 1..Len(j_issues) :
              /\ j_issues[k].line_number \in StartLines
              /\ CountedComplexity(j_issues[k].line_number)
                    > complexity_thresholds.cyclomatic.medium

\* ========================================================================
\* analyzers/duplication_analyzer.py: _analyze_similar_blocks and the
\* _deduplicate_issues of analyze, on candidate blocks whose pairwise
\* similarities are given
\* ========================================================================
\* the candidate blocks of two files, in the order _extract_code_blocks and
\* the loop over the files produce them: five-line blocks starting at line
\* 1 or line 7 of file 1 or file 2
BlockPlaces == <<[file_path |-> 1, start_line |-> 1],
                 [file_path |-> 1, start_line |-> 7],
                 [file_path |-> 2, start_line |-> 1],
                 [file_path |-> 2, start_line |-> 7]>>
CandidateBlock(p) ==
    [file_path |-> p.file_path, start_line |-> p.start_line,
     end_line |-> p.start_line + min_duplicate_lines - 1,
     line_count |-> min_duplicate_lines]
CandidateLists ==
    {KeepSeq([k \in 1..Len(BlockPlaces) |-> CandidateBlock(BlockPlaces[k])], S) :
        S \in {T \in SUBSET (1..Len(BlockPlaces)) :
                  Cardinality(T) \in 2..MaxBlocks}}

\* _calculate_similarity of two normalized blocks, in percent
PairSimilarities == {79, 80, 90, 91, 100}

\* the CodeIssue of the pair (block1, block2), block2 being the j-th block
\* (0-based) and similarity the ratio of the two in percent; the title holds
\* the similarity, the description the place of block2
SimilarIssue(block1, block2, j, similarity) ==
    Issue(Id("similar_dup", "", <<>>, block1.file_path, block1.start_line, j),
          "duplication",
          IF similarity < SimilarHigh THEN "medium" ELSE "high",
          block1.file_path, block1.start_line,
          Title("Similar Code Block", similarity),
          {[file_path |-> block2.file_path, start_line |-> block2.start_line,
            end_line |-> block2.end_line]})

\* the double loop of _analyze_similar_blocks over the pairs i < j
similar_blocks(blocks, sim) ==
    LET n == Len(blocks)
        Pair(i, j) ==
            IF blocks[i].file_path = blocks[j].file_path THEN <<>>
            ELSE IF sim[<<i, j>>] >= similarity_threshold
                    /\ blocks[i].line_count >= min_duplicate_lines
            THEN <<SimilarIssue(blocks[i], blocks[j], j - 1, sim[<<i, j>>])>>
            ELSE <<>>
        Row(i) == Flatten([d \in 1..(n - i) |-> Pair(i, i + d)])
    IN Flatten([i \in 1..n |-> Row(i)])

PairsOf(blocks) ==
    {<<i, j>> : i \in 1..Len(blocks), j \in 1..Len(blocks)} \cap
    {p \in (1..MaxBlocks) \X (1..MaxBlocks) : p[1] < p[2]}

PairsIdle ==
    /\ x_pc = "idle"
    /\ x_blocks = <<>>
    /\ x_sim = <<>>
    /\ x_issues = <<>>

PairsInit ==
    /\ x_pc = "start"
    /\ x_blocks \in CandidateLists
    /\ x_sim \in UNION {[PairsOf(bs) -> PairSimilarities] : bs \in CandidateLists}
    /\ DOMAIN x_sim = PairsOf(x_blocks)
    /\ x_issues = <<>>

\* DuplicationAnalyzer.analyze: the similar-block pass and the dedup of
\* all_issues (the findings of the other passes carry other titles and
\* cannot share a key with these)
AnalyzeSimilar ==
    /\ x_pc = "start"
    /\ x_issues' = deduplicate_issues(similar_blocks(x_blocks, x_sim))
    /\ x_pc' = "done"
    /\ UNCHANGED <<x_blocks, x_sim, notPairs>>

PairsNext == AnalyzeSimilar

\* the findings located at block i that name the place of block j
FindingsOfPair(i, j) ==
    {k \in 1..Len(x_issues) :
        /\ x_issues[k].file_path = x_blocks[i].file_path
        /\ x_issues[k].line_number = x_blocks[i].start_line
        /\ \E r \in x_issues[k].refs :
              /\ r.file_path = x_blocks[j].file_path
              /\ r.start_line = x_blocks[j].start_line}

\* C24: every pair of candidate blocks of two different files whose
\* similarity is at least 0.8 has a similar-block finding in the list
\* analyze returns, located at the first block and naming the place of the
\* second, HIGH only when the similarity is above 0.9; and no finding pairs
\* two blocks of one file
C24_EveryPairReported ==
    x_pc = "done" =>
        /\ \A p \in PairsOf(x_blocks) :
              (/\ x_blocks[p[1]].file_path # x_blocks[p[2]].file_path
               /\ x_sim[p] >= similarity_threshold)
              => /\ FindingsOfPair(p[1], p[2]) # {}
                 /\ \A k \in FindingsOfPair(p[1], p[2]) :
                       x_issues[k].severity = "high" <=> x_sim[p] > SimilarHigh
        /\ \A k \in 1..Len(x_issues) : \A r \in x_issues[k].refs :
              r.file_path # x_issues[k].file_path

\* what does hold: the first block of every such pair has a finding whose
\* title holds the pair's similarity, HIGH from 0.9 up, and the findings
\* name blocks of another file at 0.8 or more
C24_FirstBlockReported ==
    x_pc = "done" =>
        /\ \A p \in PairsOf(x_blocks) :
              (/\ x_blocks[p[1]].file_path # x_blocks[p[2]].file_path
               /\ x_sim[p] >= similarity_threshold)
              => \E k \in 1..Len(x_issues) :
                    /\ x_issues[k].file_path = x_blocks[p[1]].file_path
                    /\ x_issues[k].line_number = x_blocks[p[1]].start_line
                    /\ x_issues[k].title.n = x_sim[p]
                    /\ x_issues[k].severity = "high" <=> x_sim[p] >= SimilarHigh
        /\ \A k \in 1..Len(x_issues) : \A r \in x_issues[k].refs :
              r.file_path # x_issues[k].file_path
        /\ \A k \in 1..Len(x_issues) : x_issues[k].title.n >= similarity_threshold

\* ========================================================================
\* analyzers/ast_analyzer.py: _analyze_class_hierarchy
\* ========================================================================
\* The classes of the files are named 1, 2, ... in the order they are met;
\* class k names as bases none, the class before it, the class before it and
\* class 1, itself (a class statement that rebinds its own base's name) or
\* the class after it (MaxClasses + 1 is a base defined nowhere).
BaseChoices(k) ==
    {{}, {k}, {k + 1}} \cup (IF k > 1 THEN {{k - 1}, {k - 1, 1}} ELSE {})

\* the 'Deep inheritance threshold' of 'max_depth > 5'
DeepInheritanceThreshold == 5

\* hierarchy.nodes() and the edges base -> class, from the classes declared
\* so far (bases[k] is the set of bases of class k)
HierarchyNodes(bases) == (1..Len(bases)) \cup UNION {bases[k] : k \in 1..Len(bases)}
HierarchyEdges(bases) ==
    {e \in (1..(MaxClasses + 1)) \X (1..Len(bases)) : e[1] \in bases[e[2]]}
Successors(E, S) == {e[2] : e \in {d \in E : d[1] \in S}}
InDegreeZero(bases) ==
    {n \in HierarchyNodes(bases) : \A e \in HierarchyEdges(bases) : e[2] # n}

\* nx.shortest_path_length(hierarchy, root, node): breadth first from root;
\* -1 when nx.has_path is false
RECURSIVE ShortestFrom(_, _, _, _, _)
ShortestFrom(E, front, seen, node, d) ==
    IF node \in front THEN d
    ELSE IF front = {} THEN -1
    ELSE ShortestFrom(E, Successors(E, front) \ seen,
                      seen \cup Successors(E, front), node, d + 1)
shortest_path_length(bases, root, node) ==
    ShortestFrom(HierarchyEdges(bases), {root}, {root}, node, 0)

SetMax(S) == CHOOSE x \in S : \A y \in S : y <= x

\* 'max_depth = max(paths) if paths else 0', paths holding the shortest
\* path length from each root that has a path to the node
max_depth(bases, node) ==
    LET paths == {shortest_path_length(bases, root, node) :
                     root \in InDegreeZero(bases)} \ {-1}
    IN IF paths = {} THEN 0 ELSE SetMax(paths)

DeepInsight(node, depth) ==
    [type |-> "deep_inheritance", classes |-> {node}, depth |-> depth,
     severity |-> "medium"]

\* the loop over hierarchy.nodes()
deep_inheritance(bases) ==
    {DeepInsight(node, max_depth(bases, node)) :
        node \in {n \in HierarchyNodes(bases) :
                     max_depth(bases, n) > DeepInheritanceThreshold}}

\* nx.simple_cycles(hierarchy): the elementary cycles, each taken from its
\* smallest node, a self-loop being a cycle of one node
RECURSIVE CyclesFrom(_, _, _, _)
CyclesFrom(E, start, cur, path) ==
    UNION {IF nxt = start THEN {path}
           ELSE IF nxt > start /\ \A i \in 1..Len(path) : path[i] # nxt
           THEN CyclesFrom(E, start, nxt, Append(path, nxt))
           ELSE {} : nxt \in Successors(E, {cur})}
simple_cycles(bases) ==
    UNION {CyclesFrom(HierarchyEdges(bases), n, n, <<n>>) :
              n \in HierarchyNodes(bases)}

CircularInsight(cycle) ==
    [type |-> "circular_inheritance",
     classes |-> {cycle[i] : i \in 1..Len(cycle)}, depth |-> 0,
     severity |-> "high"]

\* the loop over the cycles: 'if len(cycle) > 1'
circular_inheritance(bases) ==
    {CircularInsight(cycle) : cycle \in {c \in simple_cycles(bases) : Len(c) > 1}}

HierIdle ==
    /\ h_pc = "idle"
    /\ h_bases = <<>>
    /\ h_insights = {}

HierInit ==
    /\ h_pc = "classes"
    /\ h_bases = <<>>
    /\ h_insights = {}

\* the next class statement of the files
DeclareClass ==
    /\ h_pc = "classes"
    /\ Len(h_bases) < MaxClasses
    /\ \E bs \in BaseChoices(Len(h_bases) + 1) : h_bases' = Append(h_bases, bs)
    /\ UNCHANGED <<h_pc, h_insights, notHier>>

\* _analyze_class_hierarchy on the classes: the graph, the deep chains, the
\* cycles
AnalyzeClassHierarchy ==
    /\ h_pc = "classes"
    /\ Len(h_bases) > 0
    /\ h_insights' = deep_inheritance(h_bases) \cup circular_inheritance(h_bases)
    /\ h_pc' = "done"
    /\ UNCHANGED <<h_bases, notHier>>

HierNext ==
    \/ DeclareClass
    \/ AnalyzeClassHierarchy

\* the longest chain of distinct classes from a class without a base down
\* to node; -1 when no such chain ends at node
RECURSIVE LongestChain(_, _, _)
LongestChain(bases, node, below) ==
    IF node \in InDegreeZero(bases) THEN 0
    ELSE LET up == {1 + LongestChain(bases, e[1], below \cup {node}) :
                       e \in {d \in HierarchyEdges(bases) :
                                 d[2] = node /\ d[1] \notin below \cup {node}}}
                   \ {0}
         IN IF up = {} THEN -1 ELSE SetMax(up)
HasDeepInsight(node) ==
    \E ins \in h_insights : ins.type = "deep_inheritance" /\ node \in ins.classes

\* C25: a class gets a deep_inheritance insight if and only if the longest
\* inheritance chain from a class without a base down to it is longer than 5
C25_DeepIffLongestChain ==
    h_pc = "done" =>
        \A node \in HierarchyNodes(h_bases) :
            HasDeepInsight(node)
                <=> LongestChain(h_bases, node, {}) > DeepInheritanceThreshold

\* what does hold: an insight means a chain longer than 5, and a class that
\* has one base at every level of its chain gets the insight exactly then
C25_DeepImpliesLongChain ==
    h_pc = "done" =>
        /\ \A node \in HierarchyNodes(h_bases) :
              HasDeepInsight(node)
                 => LongestChain(h_bases, node, {}) > DeepInheritanceThreshold
        /\ (\A k \in 1..Len(h_bases) : h_bases[k] \in {{}, {k - 1}})
              => \A node \in HierarchyNodes(h_bases) :
                    HasDeepInsight(node)
                       <=> LongestChain(h_bases, node, {}) > DeepInheritanceThreshold

\* the classes on an inheritance cycle: a class that is its own base, or two
\* classes each reachable from the other
RECURSIVE ReachableFrom(_, _)
ReachableFrom(E, S) ==
    IF Successors(E, S) \subseteq S THEN S
    ELSE ReachableFrom(E, S \cup Successors(E, S))
OnCycle(bases, node) ==
    node \in ReachableFrom(HierarchyEdges(bases),
                           Successors(HierarchyEdges(bases), {node}))
HasCircularInsight(node) ==
    \E ins \in h_insights :
        /\ ins.type = "circular_inheritance"
        /\ ins.severity = "high"
        /\ node \in ins.classes

\* C26: every class on an inheritance cycle, of any length, is covered by a
\* circular_inheritance insight of severity HIGH, and a graph without a
\* cycle gets no circular_inheritance insight
C26_EveryCycleCovered ==
    h_pc = "done" =>
        /\ \A node \in HierarchyNodes(h_bases) :
              OnCycle(h_bases, node) => HasCircularInsight(node)
        /\ (\A node \in HierarchyNodes(h_bases) : ~OnCycle(h_bases, node))
              => \A ins \in h_insights : ins.type # "circular_inheritance"

\* what does hold: the same for the cycles of two classes or more
C26_LongerCyclesCovered ==
    h_pc = "done" =>
        /\ \A node \in HierarchyNodes(h_bases) :
              (\E other \in HierarchyNodes(h_bases) \ {node} :
                  /\ other \in ReachableFrom(HierarchyEdges(h_bases), {node})
                  /\ node \in ReachableFrom(HierarchyEdges(h_bases), {other}))
              <=> HasCircularInsight(node)
        /\ \A ins \in h_insights :
              ins.type = "circular_inheritance" => ins.severity = "high"

\* ========================================================================
\* DuplicationAnalyzer._extract_code_blocks, one line of the file at a time
\* ========================================================================
\* The files: up to MaxSegments segments, each a blank line, a comment line
\* or a run of code lines of one indentation; every line carries its
\* position as its text, so that no two lines of a file are equal.
RunLengths == {1, min_duplicate_lines}
CodeRun(indent, n) == [k \in 1..n |-> Line("code", indent, 0)]
Segments ==
    {<<Line("blank", 0, 0)>>, <<Line("comment", 0, 0)>>}
    \cup {CodeRun(d, n) : d \in 0..MaxIndent, n \in RunLengths}
Numbered(content) ==
    [k \in 1..Len(content) |-> Line(content[k].kind, content[k].indent, k)]
SegmentedContents ==
    {Numbered(Flatten(s)) : s \in UNION {[1..n -> Segments] : n \in 0..MaxSegments}}

\* a block whose start_line is the 0-based index of its first line
CodeBlockFromZero(current_block, current_start, end_line) ==
    [content |-> current_block,
     hash |-> current_block,
     start_line |-> current_start,
     end_line |-> end_line,
     line_count |-> Len(current_block)]
\* the dict appended to blocks: content and hash of the joined lines,
\* start_line one more than the 0-based index current_start
CodeBlock(current_block, current_start, end_line) ==
    [content |-> current_block,
     hash |-> current_block,
     start_line |-> current_start + 1,
     end_line |-> end_line,
     line_count |-> Len(current_block)]

\* blocks after the test 'current_block and len(current_block) >=
\* self.min_duplicate_lines'
BlocksAfterEnd(end_line) ==
    IF e_current_block # <<>> /\ Len(e_current_block) >= min_duplicate_lines
    THEN Append(e_blocks, CodeBlock(e_current_block, e_current_start, end_line))
    ELSE e_blocks

ExtractIdle ==
    /\ e_pc = "idle" /\ e_lines = <<>> /\ e_i = 0 /\ e_current_block = <<>>
    /\ e_current_start = 0 /\ e_base_indent = -1 /\ e_blocks = <<>>

\* the state before the loop; base_indent None is held as -1
ExtractInit ==
    /\ e_pc = "loop"
    /\ e_lines \in SegmentedContents
    /\ e_i = 0
    /\ e_current_block = <<>>
    /\ e_current_start = 0
    /\ e_base_indent = -1
    /\ e_blocks = <<>>

\* line i (0-based) is empty or a comment: the current block ends
ExtractSkipLine ==
    /\ e_pc = "loop" /\ e_i < Len(e_lines)
    /\ e_lines[e_i + 1].kind # "code"
    /\ e_blocks' = BlocksAfterEnd(e_i)
    /\ e_current_block' = <<>>
    /\ e_base_indent' = -1
    /\ e_i' = e_i + 1
    /\ UNCHANGED <<e_pc, e_lines, e_current_start, notExtract>>

\* base_indent is None: line i starts a block
ExtractStartBlock ==
    /\ e_pc = "loop" /\ e_i < Len(e_lines)
    /\ e_lines[e_i + 1].kind = "code"
    /\ e_base_indent = -1
    /\ e_base_indent' = e_lines[e_i + 1].indent
    /\ e_current_start' = e_i
    /\ e_current_block' = <<e_lines[e_i + 1]>>
    /\ e_i' = e_i + 1
    /\ UNCHANGED <<e_pc, e_lines, e_blocks, notExtract>>

\* indent >= base_indent: line i joins the block
ExtractAppendLine ==
    /\ e_pc = "loop" /\ e_i < Len(e_lines)
    /\ e_lines[e_i + 1].kind = "code"
    /\ e_base_indent # -1
    /\ e_lines[e_i + 1].indent >= e_base_indent
    /\ e_current_block' = Append(e_current_block, e_lines[e_i + 1])
    /\ e_i' = e_i + 1
    /\ UNCHANGED <<e_pc, e_lines, e_current_start, e_base_indent, e_blocks,
                   notExtract>>

\* indent < base_indent: the block ends and line i starts the next one
ExtractDedent ==
    /\ e_pc = "loop" /\ e_i < Len(e_lines)
    /\ e_lines[e_i + 1].kind = "code"
    /\ e_base_indent # -1
    /\ e_lines[e_i + 1].indent < e_base_indent
    /\ e_blocks' = BlocksAfterEnd(e_i)
    /\ e_base_indent' = e_lines[e_i + 1].indent
    /\ e_current_start' = e_i
    /\ e_current_block' = <<e_lines[e_i + 1]>>
    /\ e_i' = e_i + 1
    /\ UNCHANGED <<e_pc, e_lines, notExtract>>

\* after the loop: the last block, then return blocks
ExtractReturn ==
    /\ e_pc = "loop" /\ e_i = Len(e_lines)
    /\ e_blocks' = BlocksAfterEnd(Len(e_lines))
    /\ e_pc' = "done"
    /\ UNCHANGED <<e_lines, e_i, e_current_block, e_current_start,
                   e_base_indent, notExtract>>

ExtractNext ==
    \/ ExtractSkipLine
    \/ ExtractStartBlock
    \/ ExtractAppendLine
    \/ ExtractDedent
    \/ ExtractReturn

\* ------------------------------------------------------------------------
\* Properties of the extracted blocks
\* ------------------------------------------------------------------------
\* block b is a run of code lines of the file, as recorded in its fields
IsRecordedRun(b) ==
    /\ 1 <= b.start_line /\ b.start_line <= b.end_line
    /\ b.end_line <= Len(e_lines)
    /\ b.line_count >= min_duplicate_lines
    /\ b.line_count = b.end_line - b.start_line + 1
    /\ b.content = SubSeq(e_lines, b.start_line, b.end_line)
    /\ \A j \in b.start_line..b.end_line :
          /\ e_lines[j].kind = "code"
          /\ e_lines[j].indent >= e_lines[b.start_line].indent

\* C27: the blocks of a file are pairwise non-overlapping runs of
\* consecutive lines without a blank or comment line; each has at least
\* min_duplicate_lines lines, line_count = end_line - start_line + 1, the
\* file's lines start_line..end_line as content, and no line indented less
\* than its first line.
C27_BlocksAreRuns ==
    /\ \A k \in 1..Len(e_blocks) : IsRecordedRun(e_blocks[k])
    /\ \A k, m \in 1..Len(e_blocks) :
          k # m => \/ e_blocks[k].end_line < e_blocks[m].start_line
                   \/ e_blocks[m].end_line < e_blocks[k].start_line

\* C27 witness: a file with a line that is not code was read to its end and
\* gave two blocks
C27_Witness ==
    /\ e_pc = "done"
    /\ Len(e_blocks) >= 2
    /\ \E k \in 1..Len(e_lines) : e_lines[k].kind # "code"

\* ========================================================================
\* analyzers/ast_analyzer.py: two analyses on the one ASTAnalyzer of the
\* global agent
\* ========================================================================
\* The Python files of a run: file k has module name k and imports a set of
\* top-level names; a name above the number of files is a module outside
\* the codebase.
AstRuns == {1, 2}
ImportLists ==
    UNION {[1..n -> SUBSET (1..MaxNames)] : n \in 0..MaxModules}

\* nx.DiGraph: its nodes and edges; None is the graph without a node, which
\* is as falsy as None for 'self.dependency_graph and ...'
Graph(nodes, edges) == [nodes |-> nodes, edges |-> edges]
NoGraph == Graph({}, {})

\* _build_dependency_graph: a node per module, and an edge from the module
\* to each name it imports (add_edge adds the missing node)
DependencyGraph(files) ==
    Graph((1..Len(files)) \cup UNION {files[k] : k \in 1..Len(files)},
          {e \in (1..Len(files)) \X (1..MaxNames) : e[2] \in files[e[1]]})

\* a quotient, held as numerator and denominator
Ratio(num, den) == <<num, den>>
SameRatio(a, b) == a[1] * b[2] = b[1] * a[2]
NoMetrics == <<>>

\* dependency_coupling of _calculate_ast_metrics: edges over nodes of
\* self.dependency_graph, 0 when it is None or has no node
dependency_coupling(dependency_graph) ==
    IF dependency_graph # NoGraph /\ Cardinality(dependency_graph.nodes) > 0
    THEN Ratio(Cardinality(dependency_graph.edges),
               Cardinality(dependency_graph.nodes))
    ELSE Ratio(0, 1)

CouplingIdle ==
    /\ y_pc = [r \in AstRuns |-> "idle"]
    /\ y_files = [r \in AstRuns |-> <<>>]
    /\ y_dependency_graph = NoGraph
    /\ y_results = [r \in AstRuns |-> NoGraph]
    /\ y_metrics = [r \in AstRuns |-> NoMetrics]

\* ASTAnalyzer(): dependency_graph None; each run has its files
CouplingInit ==
    /\ y_pc = [r \in AstRuns |-> "start"]
    /\ y_files \in [AstRuns -> ImportLists]
    /\ y_dependency_graph = NoGraph
    /\ y_results = [r \in AstRuns |-> NoGraph]
    /\ y_metrics = [r \in AstRuns |-> NoMetrics]

\* analyze without a Python file returns at once, metrics empty
AnalyzeNoPython(r) ==
    /\ y_pc[r] = "start"
    /\ y_files[r] = <<>>
    /\ y_pc' = [y_pc EXCEPT ![r] = "done"]
    /\ UNCHANGED <<y_files, y_dependency_graph, y_results, y_metrics,
                   notCoupling>>

\* the task of _build_dependency_graph that analyze has gathered: the graph
\* is stored on the analyzer and returned to the gather
BuildDependencyGraph(r) ==
    /\ y_pc[r] = "start"
    /\ y_files[r] # <<>>
    /\ y_dependency_graph' = DependencyGraph(y_files[r])
    /\ y_results' = [y_results EXCEPT ![r] = DependencyGraph(y_files[r])]
    /\ y_pc' = [y_pc EXCEPT ![r] = "gathered"]
    /\ UNCHANGED <<y_files, y_metrics, notCoupling>>

\* analyze resumed after the gather: results collected, then
\* _calculate_ast_metrics
CalculateAstMetrics(r) ==
    /\ y_pc[r] = "gathered"
    /\ y_metrics' = [y_metrics EXCEPT ![r] = dependency_coupling(y_dependency_graph)]
    /\ y_pc' = [y_pc EXCEPT ![r] = "done"]
    /\ UNCHANGED <<y_files, y_dependency_graph, y_results, notCoupling>>

CouplingNext ==
    \E r \in AstRuns :
        \/ AnalyzeNoPython(r)
        \/ BuildDependencyGraph(r)
        \/ CalculateAstMetrics(r)

\* ------------------------------------------------------------------------
\* Properties of interleaved analyses
\* ------------------------------------------------------------------------
\* edge count over node count of a graph with a node
EdgesOverNodes(graph) ==
    Ratio(Cardinality(graph.edges), Cardinality(graph.nodes))

\* C28: the dependency_coupling computed for a run is edge count over node
\* count of the dependency graph built from that run's own files.
C28_CouplingOfOwnGraph ==
    \A r \in AstRuns :
        y_pc[r] = "done" /\ y_files[r] # <<>> =>
            SameRatio(y_metrics[r], EdgesOverNodes(DependencyGraph(y_files[r])))

\* what does hold: the dependency_graph of a run's result is the graph of
\* its own files, and its dependency_coupling is that of the graph of a run
\* that has built its graph on this analyzer.
C28_CouplingOfSomeRun ==
    \A r \in AstRuns :
        y_pc[r] = "done" /\ y_files[r] # <<>> =>
            /\ y_results[r] = DependencyGraph(y_files[r])
            /\ \E o \in AstRuns :
                  /\ y_pc[o] \in {"gathered", "done"} /\ y_files[o] # <<>>
                  /\ y_metrics[r] = EdgesOverNodes(DependencyGraph(y_files[o]))

\* ========================================================================
\* main.py: an analysis from its request to the end of its background task
\* ========================================================================
\* The record of the analysis is held as the sequence of the statuses the
\* store has taken, the empty sequence when no record was inserted. What
\* the store and the file system answer is chosen with \E and noted in
\* z_faults: "save" (the insert raised), "update" (an update was not
\* executed), "rmtree" (shutil.rmtree raised).
Stored == {"pending", "processing", "completed", "failed"}
Status(writes) == IF writes = <<>> THEN "none" ELSE writes[Len(writes)]

\* status_mapping of update_analysis, with its fallback
status_mapping(status) ==
    IF status = "running" THEN "processing"
    ELSE IF status \in Stored THEN status
    ELSE "completed"

\* SupabaseClient.update_analysis: the status is mapped and written; an
\* exception of the store is logged and False returned, which no caller
\* looks at
update_analysis(writes, status, accepted) ==
    IF accepted THEN Append(writes, status_mapping(status)) ELSE writes

\* FileHandler.cleanup_temp_dir: rmtree when the path exists, an exception
\* logged
cleanup_temp_dir(temp_dir, removable) ==
    IF temp_dir = "exists" /\ removable THEN "removed" ELSE temp_dir

FaultOf(attempted, ok, name) == IF attempted /\ ~ok THEN {name} ELSE {}

JobIdle ==
    /\ z_pc = "idle" /\ z_kind = "none" /\ z_agent = FALSE /\ z_given = FALSE
    /\ z_branch = "main" /\ z_writes = <<>> /\ z_temp_dir = "none"
    /\ z_result = FALSE /\ z_faults = {}

\* a request to /analyze or /analyze/github
JobInit ==
    /\ z_pc = "request"
    /\ z_kind \in {"upload", "github"}
    /\ z_agent \in BOOLEAN
    /\ z_given \in BOOLEAN
    /\ z_branch \in {"main", "other"}
    /\ z_writes = <<>>
    /\ z_temp_dir = "none"
    /\ z_result = FALSE
    /\ z_faults = {}

\* analyze_files: 503 without agent, 400 without files, then the files are
\* written to a new directory (removed again when that raises), the record
\* is inserted as pending and the background task added; every exception
\* ends as a 500
AnalyzeFiles ==
    /\ z_pc = "request" /\ z_kind = "upload"
    /\ \E handled, saved, removable \in BOOLEAN :
          IF ~z_agent \/ ~z_given
          THEN /\ z_pc' = "rejected"
               /\ UNCHANGED <<z_writes, z_temp_dir, z_faults>>
          ELSE IF ~handled
          THEN /\ z_pc' = "rejected"
               /\ z_temp_dir' = cleanup_temp_dir("exists", removable)
               /\ z_faults' = z_faults \cup FaultOf(TRUE, removable, "rmtree")
               /\ UNCHANGED z_writes
          ELSE IF ~saved
          THEN /\ z_pc' = "rejected"
               /\ z_temp_dir' = "exists"
               /\ z_faults' = z_faults \cup {"save"}
               /\ UNCHANGED z_writes
          ELSE /\ z_pc' = "queued"
               /\ z_temp_dir' = "exists"
               /\ z_writes' = <<"pending">>
               /\ UNCHANGED z_faults
    /\ UNCHANGED <<z_kind, z_agent, z_given, z_branch, z_result, notJob>>

\* analyze_github_repository: 400 without repo_url, then the record is
\* inserted as pending and the background task added
AnalyzeGithubRepository ==
    /\ z_pc = "request" /\ z_kind = "github"
    /\ \E saved \in BOOLEAN :
          IF ~z_given
          THEN /\ z_pc' = "rejected"
               /\ UNCHANGED <<z_writes, z_faults>>
          ELSE IF ~saved
          THEN /\ z_pc' = "rejected"
               /\ z_faults' = z_faults \cup {"save"}
               /\ UNCHANGED z_writes
          ELSE /\ z_pc' = "queued"
               /\ z_writes' = <<"pending">>
               /\ UNCHANGED z_faults
    /\ UNCHANGED <<z_kind, z_agent, z_given, z_branch, z_temp_dir, z_result,
                   notJob>>

\* both background tasks begin with the update to processing
UpdateToProcessing ==
    /\ z_pc = "queued"
    /\ \E accepted \in BOOLEAN :
          /\ z_writes' = update_analysis(z_writes, "processing", accepted)
          /\ z_faults' = z_faults \cup FaultOf(TRUE, accepted, "update")
    /\ z_pc' = "processing"
    /\ UNCHANGED <<z_kind, z_agent, z_given, z_branch, z_temp_dir, z_result,
                   notJob>>

\* run_analysis_background: analyze_codebase, then the update to completed
\* with the result, or to failed in the except clause
RunAnalysisBackground ==
    /\ z_pc = "processing" /\ z_kind = "upload"
    /\ \E returned, accepted \in BOOLEAN :
          /\ z_result' = (z_agent /\ returned)
          /\ z_writes' = update_analysis(z_writes,
                            IF z_agent /\ returned THEN "completed" ELSE "failed",
                            accepted)
          /\ z_faults' = z_faults \cup FaultOf(TRUE, accepted, "update")
    /\ z_pc' = "finally"
    /\ UNCHANGED <<z_kind, z_agent, z_given, z_branch, z_temp_dir, notJob>>

\* run_analysis_background, the finally clause
RunAnalysisBackgroundFinally ==
    /\ z_pc = "finally" /\ z_kind = "upload"
    /\ \E removable \in BOOLEAN :
          /\ z_temp_dir' = cleanup_temp_dir(z_temp_dir, removable)
          /\ z_faults' = z_faults \cup
                 FaultOf(z_temp_dir = "exists", removable, "rmtree")
    /\ z_pc' = "ended"
    /\ UNCHANGED <<z_kind, z_agent, z_given, z_branch, z_writes, z_result,
                   notJob>>

\* run_github_analysis_background up to the clone: without agent it raises
\* before mkdtemp; a clone that fails (after the retry on main for another
\* branch) raises inside the inner try, whose finally removes the directory
\* (an exception of rmtree replaces the one in flight); the outer except
\* updates to failed
RunGithubClone ==
    /\ z_pc = "processing" /\ z_kind = "github"
    /\ \E first, second, removable, accepted \in BOOLEAN :
          IF ~z_agent
          THEN /\ z_writes' = update_analysis(z_writes, "failed", accepted)
               /\ z_faults' = z_faults \cup FaultOf(TRUE, accepted, "update")
               /\ z_pc' = "ended"
               /\ UNCHANGED z_temp_dir
          ELSE IF first \/ (z_branch # "main" /\ second)
          THEN /\ z_temp_dir' = "exists"
               /\ z_pc' = "cloned"
               /\ UNCHANGED <<z_writes, z_faults>>
          ELSE /\ z_temp_dir' = IF removable THEN "removed" ELSE "exists"
               /\ z_writes' = update_analysis(z_writes, "failed", accepted)
               /\ z_faults' = z_faults \cup FaultOf(TRUE, removable, "rmtree")
                                 \cup FaultOf(TRUE, accepted, "update")
               /\ z_pc' = "ended"
    /\ UNCHANGED <<z_kind, z_agent, z_given, z_branch, z_result, notJob>>

\* run_github_analysis_background after the clone: analyze_codebase and the
\* update to completed, the finally with rmtree, and the outer except with
\* the update to failed when analyze_codebase or rmtree raised
RunGithubAnalysis ==
    /\ z_pc = "cloned" /\ z_kind = "github"
    /\ \E returned, accepted, removable, accepted_failed \in BOOLEAN :
          LET completed == IF returned
                           THEN update_analysis(z_writes, "completed", accepted)
                           ELSE z_writes
              raised == ~returned \/ ~removable
          IN /\ z_result' = returned
             /\ z_temp_dir' = IF removable THEN "removed" ELSE "exists"
             /\ z_writes' = IF raised
                            THEN update_analysis(completed, "failed", accepted_failed)
                            ELSE completed
             /\ z_faults' = z_faults
                    \cup FaultOf(returned, accepted, "update")
                    \cup FaultOf(TRUE, removable, "rmtree")
                    \cup FaultOf(raised, accepted_failed, "update")
    /\ z_pc' = "ended"
    /\ UNCHANGED <<z_kind, z_agent, z_given, z_branch, notJob>>

JobNext ==
    \/ AnalyzeFiles
    \/ AnalyzeGithubRepository
    \/ UpdateToProcessing
    \/ RunAnalysisBackground
    \/ RunAnalysisBackgroundFinally
    \/ RunGithubClone
    \/ RunGithubAnalysis

\* ------------------------------------------------------------------------
\* Properties of an analysis and its record
\* ------------------------------------------------------------------------
\* the moves along pending -> processing -> completed | failed
ForwardMoves ==
    {<<"pending", "processing">>, <<"pending", "completed">>,
     <<"pending", "failed">>, <<"processing", "completed">>,
     <<"processing", "failed">>}
OnlyForward(writes) ==
    \A k \in 1..(Len(writes) - 1) : <<writes[k], writes[k + 1]>> \in ForwardMoves

\* C29: the stored status only moves forward along pending -> processing ->
\* completed | failed, completed is written only after analyze_codebase
\* returned a result, and once the background task has ended the status is
\* completed or failed.
C29_StatusProgression ==
    /\ OnlyForward(z_writes)
    /\ (\E k \in 1..Len(z_writes) : z_writes[k] = "completed") => z_result
    /\ z_pc = "ended" => Status(z_writes) \in {"completed", "failed"}

\* what does hold: the record starts as pending and never returns to
\* pending or processing, completed is written only after a result, and
\* when every update was executed and rmtree did not raise, the moves are
\* forward and the ended task leaves completed or failed.
C29_ProgressionWhileStoreAnswers ==
    /\ z_writes # <<>> => z_writes[1] = "pending"
    /\ \A k \in 1..(Len(z_writes) - 1) :
          /\ z_writes[k + 1] # "pending"
          /\ z_writes[k + 1] = "processing" => z_writes[k] = "pending"
    /\ (\E k \in 1..Len(z_writes) : z_writes[k] = "completed") => z_result
    /\ z_faults \cap {"update", "rmtree"} = {} =>
          /\ OnlyForward(z_writes)
          /\ z_pc = "ended" => Status(z_writes) \in {"completed", "failed"}

\* C30: once the request and its background task have finished, the
\* temporary directory created for the analysis has been removed.
C30_TempDirRemoved ==
    z_pc \in {"rejected", "ended"} => z_temp_dir # "exists"

\* what does hold: the directory is gone at the end unless rmtree raised
\* or, for an upload, the insert of the record raised.
C30_RemovedUnlessFault ==
    z_pc \in {"rejected", "ended"} /\ z_temp_dir = "exists" =>
        \/ "rmtree" \in z_faults
        \/ z_kind = "upload" /\ "save" \in z_faults

\* ========================================================================
\* Specifications, one per component
\* ========================================================================
ParserStart ==
    /\ ParserInit
    /\ ScoreIdle
    /\ AgentIdle
    /\ DupIdle
    /\ CycloIdle
    /\ NestIdle
    /\ DedupIdle
    /\ ScanIdle
    /\ NormIdle
    /\ GuardIdle
    /\ BatchIdle
    /\ CogIdle
    /\ AstWalkIdle
    /\ RegexIdle
    /\ PairsIdle
    /\ HierIdle
    /\ ExtractIdle
    /\ CouplingIdle
    /\ JobIdle
SpecParser == ParserStart /\ [][ParserNext]_vars

ScoreStart ==
    /\ ScoreInit
    /\ ParserIdle
    /\ AgentIdle
    /\ DupIdle
    /\ CycloIdle
    /\ NestIdle
    /\ DedupIdle
    /\ ScanIdle
    /\ NormIdle
    /\ GuardIdle
    /\ BatchIdle
    /\ CogIdle
    /\ AstWalkIdle
    /\ RegexIdle
    /\ PairsIdle
    /\ HierIdle
    /\ ExtractIdle
    /\ CouplingIdle
    /\ JobIdle
SpecScore == ScoreStart /\ [][ScoreNext]_vars

AgentStart ==
    /\ AgentInit
    /\ ParserIdle
    /\ ScoreIdle
    /\ DupIdle
    /\ CycloIdle
    /\ NestIdle
    /\ DedupIdle
    /\ ScanIdle
    /\ NormIdle
    /\ GuardIdle
    /\ BatchIdle
    /\ CogIdle
    /\ AstWalkIdle
    /\ RegexIdle
    /\ PairsIdle
    /\ HierIdle
    /\ ExtractIdle
    /\ CouplingIdle
    /\ JobIdle
SpecAgent == AgentStart /\ [][AgentNext]_vars

DupStart ==
    /\ DupInit
    /\ ParserIdle
    /\ ScoreIdle
    /\ AgentIdle
    /\ CycloIdle
    /\ NestIdle
    /\ DedupIdle
    /\ ScanIdle
    /\ NormIdle
    /\ GuardIdle
    /\ BatchIdle
    /\ CogIdle
    /\ AstWalkIdle
    /\ RegexIdle
    /\ PairsIdle
    /\ HierIdle
    /\ ExtractIdle
    /\ CouplingIdle
    /\ JobIdle
SpecDup == DupStart /\ [][DupNext]_vars

CycloStart ==
    /\ CycloInit
    /\ ParserIdle
    /\ ScoreIdle
    /\ AgentIdle
    /\ DupIdle
    /\ NestIdle
    /\ DedupIdle
    /\ ScanIdle
    /\ NormIdle
    /\ GuardIdle
    /\ BatchIdle
    /\ CogIdle
    /\ AstWalkIdle
    /\ RegexIdle
    /\ PairsIdle
    /\ HierIdle
    /\ ExtractIdle
    /\ CouplingIdle
    /\ JobIdle
SpecCyclo == CycloStart /\ [][CycloNext]_vars

NestStart ==
    /\ NestInit
    /\ ParserIdle
    /\ ScoreIdle
    /\ AgentIdle
    /\ DupIdle
    /\ CycloIdle
    /\ DedupIdle
    /\ ScanIdle
    /\ NormIdle
    /\ GuardIdle
    /\ BatchIdle
    /\ CogIdle
    /\ AstWalkIdle
    /\ RegexIdle
    /\ PairsIdle
    /\ HierIdle
    /\ ExtractIdle
    /\ CouplingIdle
    /\ JobIdle
SpecNest == NestStart /\ [][NestNext]_vars

DedupStart ==
    /\ DedupInit
    /\ ParserIdle
    /\ ScoreIdle
    /\ AgentIdle
    /\ DupIdle
    /\ CycloIdle
    /\ NestIdle
    /\ ScanIdle
    /\ NormIdle
    /\ GuardIdle
    /\ BatchIdle
    /\ CogIdle
    /\ AstWalkIdle
    /\ RegexIdle
    /\ PairsIdle
    /\ HierIdle
    /\ ExtractIdle
    /\ CouplingIdle
    /\ JobIdle
SpecDedup == DedupStart /\ [][DedupNext]_vars

ScanStart ==
    /\ ScanInit
    /\ ParserIdle
    /\ ScoreIdle
    /\ AgentIdle
    /\ DupIdle
    /\ CycloIdle
    /\ NestIdle
    /\ DedupIdle
    /\ NormIdle
    /\ GuardIdle
    /\ BatchIdle
    /\ CogIdle
    /\ AstWalkIdle
    /\ RegexIdle
    /\ PairsIdle
    /\ HierIdle
    /\ ExtractIdle
    /\ CouplingIdle
    /\ JobIdle
SpecScan == ScanStart /\ [][ScanNext]_vars

NormStart ==
    /\ NormInit
    /\ ParserIdle
    /\ ScoreIdle
    /\ AgentIdle
    /\ DupIdle
    /\ CycloIdle
    /\ NestIdle
    /\ DedupIdle
    /\ ScanIdle
    /\ GuardIdle
    /\ BatchIdle
    /\ CogIdle
    /\ AstWalkIdle
    /\ RegexIdle
    /\ PairsIdle
    /\ HierIdle
    /\ ExtractIdle
    /\ CouplingIdle
    /\ JobIdle
SpecNorm == NormStart /\ [][NormNext]_vars

GuardStart ==
    /\ GuardInit
    /\ ParserIdle
    /\ ScoreIdle
    /\ AgentIdle
    /\ DupIdle
    /\ CycloIdle
    /\ NestIdle
    /\ DedupIdle
    /\ ScanIdle
    /\ NormIdle
    /\ BatchIdle
    /\ CogIdle
    /\ AstWalkIdle
    /\ RegexIdle
    /\ PairsIdle
    /\ HierIdle
    /\ ExtractIdle
    /\ CouplingIdle
    /\ JobIdle
SpecGuard == GuardStart /\ [][GuardNext]_vars

BatchStart ==
    /\ BatchInit
    /\ ParserIdle
    /\ ScoreIdle
    /\ AgentIdle
    /\ DupIdle
    /\ CycloIdle
    /\ NestIdle
    /\ DedupIdle
    /\ ScanIdle
    /\ NormIdle
    /\ GuardIdle
    /\ CogIdle
    /\ AstWalkIdle
    /\ RegexIdle
    /\ PairsIdle
    /\ HierIdle
    /\ ExtractIdle
    /\ CouplingIdle
    /\ JobIdle
SpecBatch == BatchStart /\ [][BatchNext]_vars

CogStart ==
    /\ CogInit
    /\ ParserIdle
    /\ ScoreIdle
    /\ AgentIdle
    /\ DupIdle
    /\ CycloIdle
    /\ NestIdle
    /\ DedupIdle
    /\ ScanIdle
    /\ NormIdle
    /\ GuardIdle
    /\ BatchIdle
    /\ AstWalkIdle
    /\ RegexIdle
    /\ PairsIdle
    /\ HierIdle
    /\ ExtractIdle
    /\ CouplingIdle
    /\ JobIdle
SpecCog == CogStart /\ [][CogNext]_vars

AstWalkStart ==
    /\ AstWalkInit
    /\ ParserIdle
    /\ ScoreIdle
    /\ AgentIdle
    /\ DupIdle
    /\ CycloIdle
    /\ NestIdle
    /\ DedupIdle
    /\ ScanIdle
    /\ NormIdle
    /\ GuardIdle
    /\ BatchIdle
    /\ CogIdle
    /\ RegexIdle
    /\ PairsIdle
    /\ HierIdle
    /\ ExtractIdle
    /\ CouplingIdle
    /\ JobIdle
SpecAstWalk == AstWalkStart /\ [][AstWalkNext]_vars

RegexStart ==
    /\ RegexInit
    /\ ParserIdle
    /\ ScoreIdle
    /\ AgentIdle
    /\ DupIdle
    /\ CycloIdle
    /\ NestIdle
    /\ DedupIdle
    /\ ScanIdle
    /\ NormIdle
    /\ GuardIdle
    /\ BatchIdle
    /\ CogIdle
    /\ AstWalkIdle
    /\ PairsIdle
    /\ HierIdle
    /\ ExtractIdle
    /\ CouplingIdle
    /\ JobIdle
SpecRegex == RegexStart /\ [][RegexNext]_vars

PairsStart ==
    /\ PairsInit
    /\ ParserIdle
    /\ ScoreIdle
    /\ AgentIdle
    /\ DupIdle
    /\ CycloIdle
    /\ NestIdle
    /\ DedupIdle
    /\ ScanIdle
    /\ NormIdle
    /\ GuardIdle
    /\ BatchIdle
    /\ CogIdle
    /\ AstWalkIdle
    /\ RegexIdle
    /\ HierIdle
    /\ ExtractIdle
    /\ CouplingIdle
    /\ JobIdle
SpecPairs == PairsStart /\ [][PairsNext]_vars

HierStart ==
    /\ HierInit
    /\ ParserIdle
    /\ ScoreIdle
    /\ AgentIdle
    /\ DupIdle
    /\ CycloIdle
    /\ NestIdle
    /\ DedupIdle
    /\ ScanIdle
    /\ NormIdle
    /\ GuardIdle
    /\ BatchIdle
    /\ CogIdle
    /\ AstWalkIdle
    /\ RegexIdle
    /\ PairsIdle
    /\ ExtractIdle
    /\ CouplingIdle
    /\ JobIdle
SpecHier == HierStart /\ [][HierNext]_vars

ExtractStart ==
    /\ ExtractInit
    /\ ParserIdle
    /\ ScoreIdle
    /\ AgentIdle
    /\ DupIdle
    /\ CycloIdle
    /\ NestIdle
    /\ DedupIdle
    /\ ScanIdle
    /\ NormIdle
    /\ GuardIdle
    /\ BatchIdle
    /\ CogIdle
    /\ AstWalkIdle
    /\ RegexIdle
    /\ PairsIdle
    /\ HierIdle
    /\ CouplingIdle
    /\ JobIdle
SpecExtract == ExtractStart /\ [][ExtractNext]_vars

CouplingStart ==
    /\ CouplingInit
    /\ ParserIdle
    /\ ScoreIdle
    /\ AgentIdle
    /\ DupIdle
    /\ CycloIdle
    /\ NestIdle
    /\ DedupIdle
    /\ ScanIdle
    /\ NormIdle
    /\ GuardIdle
    /\ BatchIdle
    /\ CogIdle
    /\ AstWalkIdle
    /\ RegexIdle
    /\ PairsIdle
    /\ HierIdle
    /\ ExtractIdle
    /\ JobIdle
SpecCoupling == CouplingStart /\ [][CouplingNext]_vars

JobStart ==
    /\ JobInit
    /\ ParserIdle
    /\ ScoreIdle
    /\ AgentIdle
    /\ DupIdle
    /\ CycloIdle
    /\ NestIdle
    /\ DedupIdle
    /\ ScanIdle
    /\ NormIdle
    /\ GuardIdle
    /\ BatchIdle
    /\ CogIdle
    /\ AstWalkIdle
    /\ RegexIdle
    /\ PairsIdle
    /\ HierIdle
    /\ ExtractIdle
    /\ CouplingIdle
SpecJob == JobStart /\ [][JobNext]_vars

====
